---- MODULE Spec2Model ----
(***************************************************************************)
(* Hydra agent runtime: the per-agent economic state machine               *)
(* (handleServiceCall -> distributeRevenue -> checkAndSpawn -> spawnChild),*)
(* the process-wide registry runningAgents, and the periodic auto-spawn    *)
(* sweep, under single-threaded cooperative scheduling.                    *)
(*                                                                         *)
(* One step of the model is the code a task runs between two awaits on     *)
(* real I/O (report service, ledger call, balance fetch, funding transfer).*)
(* An await on an already-settled promise does not yield to another task,  *)
(* so the synchronous code around it belongs to the same step.             *)
(***************************************************************************)
EXTENDS Integers, Sequences, FiniteSets, TLC

(***************************************************************************)
(* Program constants (config.ts, hydra-agent.ts)                           *)
(***************************************************************************)
SPAWN_THRESHOLD_LAMPORTS == 500000000

REVENUE_SHARE_BPS == 2000

SERVICE_PRICE_LAMPORTS == 10000000

BPS_DENOMINATOR == 10000

SPECIALIZATIONS ==
  << "token-risk-analysis", "wallet-behavior-scoring",
     "protocol-health-monitor", "mev-detection", "liquidity-analysis" >>

\* fundingAmount = 0.05 * LAMPORTS_PER_SOL
fundingAmount == 50000000

\* safety margin 0.01 * LAMPORTS_PER_SOL required on top of fundingAmount
fundingMargin == 10000000

\* checkAndSpawn: "if (this.state.depth >= 4) return"
SPAWN_DEPTH_CEILING == 4

\* checkAndSpawn: "if (this.state.children.length >= 3) return"
MAX_CHILDREN == 3

RATE_LIMIT_WINDOW_MS == 60000

RATE_LIMIT_MAX_REQUESTS == 60

MAX_SIMULATE_CALLS == 100

\* anchor-client.ts
maxAttempts == 3
baseDelayMs == 500
RecentTxCapacity == 50

(***************************************************************************)
(* Bounds of the model                                                     *)
(***************************************************************************)
\* number of handlers (requests, sweeps) that may be in flight together
MaxTasks == 2

\* number of service requests received after the start state
MaxCalls == 2

\* identity keys that exist; Keypair.generate() draws an unused one
MaxWallets == 7

\* number of requests of the sequential scenario
MaxSeqCalls == 155

\* largest small earning handed to distributeRevenue taken alone
MaxEarning == 30

\* number of requests that reach the rate limiter after the start state
MaxRateRequests == 5

\* number of times the clock is seen to advance between two requests
MaxAdvances == 1

\* longest simulation followed with report failures and with more agents
\* than the root; longer ones run on the root alone, every report succeeding
MaxVariedSim == 10

\* largest number asked of /simulate
MaxSimNumber == 200

\* caller keys (the x-forwarded-for / x-real-ip value, or "unknown")
MaxCallers == 2

Tasks == 1..MaxTasks

Wallets == 1..MaxWallets

\* parentWallet: PublicKey | null
NoWallet == 0

(***************************************************************************)
(* Agent state and the synchronous pieces of HydraAgent                    *)
(***************************************************************************)
\* variant: the child is constructed without its parent
NewAgentStateWithoutParent(specialization, depth, parentWallet) ==
  [ specialization   |-> specialization,
    depth            |-> depth,
    parentWallet     |-> NoWallet,
    totalEarned      |-> 0,
    serviceCallCount |-> 0,
    children         |-> << >>,
    isRoot           |-> FALSE ]

\* the AgentState literal handed to "new HydraAgent" by spawnChild
NewAgentState(specialization, depth, parentWallet) ==
  [ specialization   |-> specialization,
    depth            |-> depth,
    parentWallet     |-> parentWallet,
    totalEarned      |-> 0,
    serviceCallCount |-> 0,
    children         |-> << >>,
    isRoot           |-> FALSE ]

\* the AgentState literal of initRootAgent
RootAgentState ==
  [ specialization   |-> "token-risk-analysis",
    depth            |-> 0,
    parentWallet     |-> NoWallet,
    totalEarned      |-> 0,
    serviceCallCount |-> 0,
    children         |-> << >>,
    isRoot           |-> TRUE ]

\* the key under which initRootAgent registers the root
RootWallet == 1

\* variant: the agent's own specialization is not added
usedSpecsOfChildren(st) ==
  { st.children[i].specialization : i \in 1..Len(st.children) }

\* new Set(children.map(c => c.specialization)).add(this.state.specialization)
usedSpecs(st) ==
  { st.children[i].specialization : i \in 1..Len(st.children) }
    \cup { st.specialization }

\* variant: the list offers as many specializations as an agent has child
\* slots, the agent's own not counted
availableAmongFirst(st) ==
  { i \in 1..MAX_CHILDREN : SPECIALIZATIONS[i] \notin usedSpecs(st) }

\* SPECIALIZATIONS.filter(s => !usedSpecs.has(s)), as the indices kept
available(st) ==
  { i \in 1..Len(SPECIALIZATIONS) : SPECIALIZATIONS[i] \notin usedSpecs(st) }

\* available[0]: the first specialization, in the fixed order, not yet used
childSpecOf(st) ==
  SPECIALIZATIONS[CHOOSE i \in available(st) : \A j \in available(st) : i <= j]

\* variant: the depth check lets depth 4 through (">" for ">=")
PassesSpawnChecksDepthOffByOne(st) ==
  /\ ~ (st.totalEarned < SPAWN_THRESHOLD_LAMPORTS)
  /\ ~ (st.depth > SPAWN_DEPTH_CEILING)
  /\ ~ (Len(st.children) >= MAX_CHILDREN)

\* variant: no limit on the number of children
PassesSpawnChecksAnyFanOut(st) ==
  /\ ~ (st.totalEarned < SPAWN_THRESHOLD_LAMPORTS)
  /\ ~ (st.depth >= SPAWN_DEPTH_CEILING)

\* the three early returns of checkAndSpawn
PassesSpawnChecks(st) ==
  /\ ~ (st.totalEarned < SPAWN_THRESHOLD_LAMPORTS)
  /\ ~ (st.depth >= SPAWN_DEPTH_CEILING)
  /\ ~ (Len(st.children) >= MAX_CHILDREN)

\* checkAndSpawn reaches "await this.spawnChild(...)"
WillSpawn(st) == PassesSpawnChecks(st) /\ available(st) # {}

\* variant: the call is not counted
CreditEarningWithoutCount(st) ==
  [ st EXCEPT !.totalEarned = @ + SERVICE_PRICE_LAMPORTS ]

\* variant: the earning is credited net of the parent's share
CreditEarningNetOfShare(st) ==
  [ st EXCEPT !.totalEarned =
                 @ + SERVICE_PRICE_LAMPORTS
                   - (SERVICE_PRICE_LAMPORTS \div BPS_DENOMINATOR) * REVENUE_SHARE_BPS,
              !.serviceCallCount = @ + 1 ]

\* "this.state.totalEarned += SERVICE_PRICE_LAMPORTS; this.state.serviceCallCount++"
CreditEarning(st) ==
  [ st EXCEPT !.totalEarned = @ + SERVICE_PRICE_LAMPORTS,
              !.serviceCallCount = @ + 1 ]

\* variant: the earnings are not reset
CompleteSpawnWithoutReset(st, child) ==
  [ st EXCEPT !.children = Append(@, child) ]

\* variant: the new ChildRef is put in front of the list
CompleteSpawnUnshift(st, child) ==
  [ st EXCEPT !.children = << child >> \o @, !.totalEarned = 0 ]

\* variant: the earnings are reset and the ChildRef is not pushed
CompleteSpawnWithoutPush(st, child) == [ st EXCEPT !.totalEarned = 0 ]

\* "this.state.children.push(child); this.state.totalEarned = 0"
CompleteSpawn(st, child) ==
  [ st EXCEPT !.children = Append(@, child), !.totalEarned = 0 ]

\* the ChildAgent returned by spawnChild (name and spawnedAt are not modelled)
ChildRef(wallet, specialization) ==
  [ wallet |-> wallet, specialization |-> specialization ]

\* variant: the share kept by the child is sent instead of the parent's
shareAmountComplement(earningAmount) ==
  (earningAmount \div BPS_DENOMINATOR) * (BPS_DENOMINATOR - REVENUE_SHARE_BPS)
    + ((earningAmount % BPS_DENOMINATOR) * (BPS_DENOMINATOR - REVENUE_SHARE_BPS))
        \div BPS_DENOMINATOR

\* Math.floor((earningAmount * REVENUE_SHARE_BPS) / 10000), written as
\* q * bps + floor(r * bps / 10000) for earningAmount = 10000 q + r so that
\* the product stays inside the model checker's integer range
shareAmount(earningAmount) ==
  (earningAmount \div BPS_DENOMINATOR) * REVENUE_SHARE_BPS
    + ((earningAmount % BPS_DENOMINATOR) * REVENUE_SHARE_BPS) \div BPS_DENOMINATOR

\* distributeRevenue returned without calling distributeToParent
NoCall == -1

\* variant: a zero share is sent as well
distributeRevenueWithoutZeroCheck(parentWallet, earningAmount) ==
  IF parentWallet = NoWallet THEN NoCall
  ELSE (earningAmount \div BPS_DENOMINATOR) * REVENUE_SHARE_BPS
         + ((earningAmount % BPS_DENOMINATOR) * REVENUE_SHARE_BPS)
             \div BPS_DENOMINATOR

\* distributeRevenue up to its ledger call: the amount it hands to
\* distributeToParent, or NoCall when it returns before
distributeRevenue(parentWallet, earningAmount) ==
  IF parentWallet = NoWallet THEN NoCall
  ELSE IF shareAmount(earningAmount) = 0 THEN NoCall
  ELSE shareAmount(earningAmount)

(***************************************************************************)
(* State                                                                   *)
(***************************************************************************)
VARIABLES
  runningAgents,  \* Map<string, HydraAgent>: identity key -> AgentState
  order,          \* insertion order of runningAgents (Map iteration order)
  tasks,          \* the handlers in flight: one record per task slot
  callsStarted,   \* requests received since the start state
  completed,      \* per key: handleServiceCall invocations that returned a report
  ledger,         \* ledger instructions issued since the start state
  response,       \* the request the last step answered, IdleTask if none
  dr,             \* one call of distributeRevenue taken alone
  rl,             \* the rate limiter: clock, rateLimitMap, decisions taken
  lc              \* the ledger client: the call in progress, recentTxSignatures

\* the state of the agent runtime
agentVars ==
  << runningAgents, order, tasks, callsStarted, completed, ledger, response >>

\* the state of the components examined on their own
unitVars == << dr, rl, lc >>

vars ==
  << runningAgents, order, tasks, callsStarted, completed, ledger, response,
     dr, rl, lc >>

\* distributeRevenue not called
DrIdle == [ pc |-> "idle", earningAmount |-> 0, parentWallet |-> NoWallet,
            amount |-> NoCall, tx |-> "" ]

\* Number(body.calls) is NaN (calls absent or not numeric) or a number, held
\* as twice its value so that halves can be told from integers;
\* body.targetMint is kept when it is a non-empty string of at most 64
\* characters, and is "" otherwise
NoBody == [ nan |-> TRUE, twice |-> 0, targetMint |-> "" ]

\* a task slot with no handler in it
IdleTask ==
  [ kind      |-> "none",     \* "service" | "sweep" | "simulate"
    pc        |-> "idle",     \* the await the handler is suspended at
    agent     |-> NoWallet,   \* the agent whose method is running
    childSpec |-> "",         \* checkAndSpawn: childSpec
    childKey  |-> NoWallet,   \* spawnChild: childKeypair
    earned    |-> 0,          \* checkAndSpawn: totalEarned as logged when the
                              \* checks passed ("Earned ... SOL")
    idx       |-> 0,          \* sweep: position in runningAgents.values()
    address   |-> "",         \* the target parameter of the request
    message   |-> << >>,      \* the Error thrown by validateAddress
    invoked   |-> FALSE,      \* the report service was called
    reportOk  |-> FALSE,      \* the report service returned a report
    error     |-> FALSE,      \* handleServiceCall threw
    status    |-> 0,          \* HTTP status answered by the route
    ledgerOk  |-> TRUE,       \* the ledger call settling in this step succeeded
    sent      |-> NoCall,     \* amount handed to distributeToParent
    spawned   |-> FALSE,      \* this request completed a spawn
    aborted   |-> FALSE,      \* this request's spawnChild threw
    body      |-> NoBody,     \* simulate: Number(body.calls), body.targetMint
    calls     |-> 0,          \* simulate: calls
    i         |-> 0,          \* simulate: the loop index
    attempts  |-> 0,          \* simulate: handleServiceCall invocations so far
    agents    |-> << >> ]     \* simulate: Array.from(runningAgents.values())

\* the positions inside spawnChild
Provisioning == { "balance", "fund", "spawnOnChain" }

\* the positions of handleServiceCall after the counters were credited
Credited == { "recordEarning", "distribute" } \cup Provisioning

\* the ledger as the process sees it: the calls sent to it, and the agent
\* records its authority has deactivated (is_active = false)
NoLedgerCalls ==
  [ recordEarning |-> 0, distribute |-> 0, distributed |-> 0, inactive |-> {} ]

(***************************************************************************)
(* Start states.  The process starts with the root alone (initRootAgent).  *)
(* Spawning takes 50 service calls per child, so the interleavings of      *)
(* interest are explored from states that a sequence of complete,          *)
(* one-at-a-time service calls reaches from there; SeqServiceCall is one   *)
(* such call, i.e. the handler's steps run without interleaving.           *)
(***************************************************************************)
\* runningAgents.set(key, agent)
RegistrySet(agents, key, st) == (key :> st) @@ agents

\* position of a Map entry: a new key goes last, an existing key stays put
OrderSet(ord, key) ==
  IF \E i \in 1..Len(ord) : ord[i] = key THEN ord ELSE Append(ord, key)

\* the registry after initRootAgent
InitialRegistry ==
  [ agents |-> (RootWallet :> RootAgentState),
    order  |-> << RootWallet >> ]

\* one complete handleServiceCall on agent w with nothing else in flight;
\* the child's key is the next unused one
SeqServiceCall(s, w) ==
  LET st  == CreditEarning(s.agents[w])
      key == Len(s.order) + 1
  IN  IF WillSpawn(st)
      THEN [ agents |-> RegistrySet(
                          [ s.agents EXCEPT ![w] =
                              CompleteSpawn(st, ChildRef(key, childSpecOf(st))) ],
                          key,
                          NewAgentState(childSpecOf(st), st.depth + 1, w)),
             order  |-> OrderSet(s.order, key) ]
      ELSE [ agents |-> [ s.agents EXCEPT ![w] = st ], order |-> s.order ]

\* n such calls in a row, the second half run on the result of the first
RECURSIVE SeqServiceCalls(_, _, _)
SeqServiceCalls(s, w, n) ==
  IF n = 0 THEN s
  ELSE IF n = 1 THEN SeqServiceCall(s, w)
  ELSE CHOOSE r \in { SeqServiceCalls(h, w, n - (n \div 2)) :
                        h \in { SeqServiceCalls(s, w, n \div 2) } } : TRUE

\* the calls of a plan, entry by entry
RECURSIVE RunPlan(_, _)
RunPlan(s, plan) ==
  IF plan = << >> THEN s
  ELSE CHOOSE r \in { RunPlan(h, Tail(plan)) :
                        h \in { SeqServiceCalls(s, plan[1][1], plan[1][2]) } } : TRUE

\* << agent key, number of calls >> sequences run from the initial registry
WarmPlans ==
  { << >>,                                   \* the root alone
    << <<1, 49>> >>,                         \* root one call short of a spawn
    << <<1, 50>>, <<2, 49>> >>,              \* a child one call short
    << <<1, 149>> >>,                        \* root, 2 children, one call short
    << <<1, 199>> >>,                        \* root, 3 children, one call short
    << <<1, 50>>, <<2, 50>>, <<3, 50>>, <<4, 50>>, <<5, 49>> >> } \* depth 4

InitWith(s) ==
  /\ runningAgents = s.agents
  /\ order = s.order
  /\ tasks = [ t \in Tasks |-> IdleTask ]
  /\ callsStarted = 0
  /\ completed = [ w \in Wallets |->
                     IF w \in DOMAIN runningAgents
                     THEN runningAgents[w].serviceCallCount ELSE 0 ]
  /\ ledger = NoLedgerCalls
  /\ response = IdleTask

Callers == 1..MaxCallers

\* the rate limiter before any request
RlIdle ==
  [ now      |-> 0,                           \* Date.now()
    map      |-> [ ip \in Callers |-> << >> ], \* rateLimitMap; << >>: no entry
    unswept  |-> [ ip \in Callers |-> << >> ], \* rateLimitMap of the run that
                                              \* gets the same requests and
                                              \* whose pruning timer never fires
    log      |-> [ ip \in Callers |-> << >> ], \* per caller: its requests so far,
                                              \* each with its time and outcome
    requests |-> 0,                           \* requests since the start state
    advances |-> 0 ]                          \* clock changes seen since then

\* a ledger-client call that has produced no value
NoResult == [ kind |-> "none", sig |-> NoCall ]

\* the ledger client before any call
\* no GET /on-chain request is in progress and none was answered
MirrorIdle ==
  [ pc       |-> "idle",   \* where the handler is waiting
    status   |-> 0,        \* the HTTP status of the answer
    registry |-> "none",   \* the answer's registry: "null" or "value"
    agents   |-> "none",   \* the answer's agents: "empty" or "list"
    error    |-> FALSE,    \* the answer has an error field
    shown    |-> 0,        \* the length of the answer's recentTransactions
    failed   |-> 0,        \* fetches of this request that failed
    requests |-> 0 ]       \* requests since the start state

LcIdle ==
  [ fn       |-> "none",     \* the exported function called
    pc       |-> "idle",     \* where the call is waiting
    sig      |-> NoCall,     \* the signature the last attempt resolved with
    outcomes |-> << >>,      \* withRetry: per attempt, whether fn() resolved
    delays   |-> << >>,      \* withRetry: the setTimeout delays waited, in ms
    result   |-> NoResult,   \* the value returned to the caller
    escaped  |-> FALSE,      \* an exception left the exported function
    now      |-> 0,          \* Date.now()
    recentTxSignatures |-> << >>,
    issued   |-> 0,          \* signatures the ledger has handed out
    calls    |-> 0,          \* calls since the start state
    existing |-> "none",     \* what the fetch of the existing account gave
    effects  |-> 0,          \* times the ledger ran this call's instruction
    accounts |-> {},         \* the accounts created on the ledger
    mirror   |-> MirrorIdle ] \* the GET /on-chain request in progress

\* no component is examined on its own
UnitsIdle == dr = DrIdle /\ rl = RlIdle /\ lc = LcIdle

Init ==
  /\ \E plan \in WarmPlans : InitWith(RunPlan(InitialRegistry, plan))
  /\ UnitsIdle

(***************************************************************************)
(* Pieces of the handlers shared by several steps                          *)
(***************************************************************************)
\* Keypair.generate(): a key that no agent and no other provisioning has
KeysInUse(agents, t) ==
  DOMAIN agents \cup { tasks[u].childKey : u \in Tasks \ {t} }

HasFreshKey(agents, t) == \E k \in Wallets : k \notin KeysInUse(agents, t)

KeypairGenerate(agents, t) ==
  CHOOSE k \in Wallets :
    /\ k \notin KeysInUse(agents, t)
    /\ \A j \in Wallets : j \notin KeysInUse(agents, t) => k <= j

\* variant: a failed ledger call makes handleServiceCall throw
PropagateLedgerOutcome(tk, ok) ==
  [ tk EXCEPT !.ledgerOk = ok, !.error = @ \/ (tk.kind = "service" /\ ~ ok) ]

\* the catch blocks around the ledger calls, and the anchor-client functions
\* that return null instead of throwing: the failure is logged, the handler
\* goes on
SwallowLedgerOutcome(tk, ok) == [ tk EXCEPT !.ledgerOk = ok ]

\* POST /service/:wallet: 200 with the result if handleServiceCall returned,
\* 400 with the message if it threw
Respond(tk) ==
  [ tk EXCEPT !.pc = "done",
              !.status = IF tk.error THEN 400 ELSE 200,
              !.childSpec = "", !.childKey = NoWallet, !.earned = 0 ]

\* POST /simulate: the try block around handleServiceCall has pushed the
\* attempt's outcome to results and the 200 ms delay is awaited
AfterAttempt(tk) ==
  [ tk EXCEPT !.pc = "delay", !.attempts = @ + 1,
              !.childSpec = "", !.childKey = NoWallet, !.earned = 0 ]

\* handleServiceCall has returned or thrown: its caller goes on
Returns(tk) == IF tk.kind = "simulate" THEN AfterAttempt(tk) ELSE Respond(tk)

\* checkAndSpawn of tk.agent up to its first await: either it returns (and
\* handleServiceCall returns the result), or it has picked childSpec, drawn
\* the child's keypair and awaits the balance
CheckAndSpawn(tk, agents, t) ==
  LET st == agents[tk.agent]
  IN  IF WillSpawn(st)
      THEN [ tk EXCEPT !.pc = "balance",
                       !.childSpec = childSpecOf(st),
                       !.earned = st.totalEarned,
                       !.childKey = KeypairGenerate(agents, t) ]
      ELSE Returns(tk)

\* the step is possible within the bound on keys
KeyBoundAllows(tk, agents, t) ==
  WillSpawn(agents[tk.agent]) => HasFreshKey(agents, t)

\* variant: the loop looks at the first agent of runningAgents only
NextSpawningRootOnly(agents, ord, from) ==
  IF from = 1 /\ WillSpawn(agents[ord[1]]) THEN 1 ELSE 0

\* startAutoSpawnLoop: "for (const agent of runningAgents.values())
\* await agent.checkAndSpawn()" from position from on, up to the first agent
\* whose checkAndSpawn awaits; position 0 when the loop runs to its end
NextSpawning(agents, ord, from) ==
  LET hits == { j \in from..Len(ord) : WillSpawn(agents[ord[j]]) }
  IN  IF hits = {} THEN 0 ELSE CHOOSE j \in hits : \A k \in hits : j <= k

SweepFrom(tk, agents, ord, from, t) ==
  LET j == NextSpawning(agents, ord, from)
  IN  IF j = 0
      THEN [ IdleTask EXCEPT !.kind = "sweep", !.pc = "done" ]
      ELSE [ IdleTask EXCEPT !.kind = "sweep", !.pc = "balance",
                             !.idx = j, !.agent = ord[j],
                             !.childSpec = childSpecOf(agents[ord[j]]),
                             !.earned = agents[ord[j]].totalEarned,
                             !.childKey = KeypairGenerate(agents, t) ]

SweepKeyBoundAllows(agents, ord, from, t) ==
  NextSpawning(agents, ord, from) # 0 => HasFreshKey(agents, t)

\* what follows the return of checkAndSpawn in its caller
AfterCheckAndSpawn(tk, agents, ord, t) ==
  IF tk.kind = "sweep" THEN SweepFrom(tk, agents, ord, tk.idx + 1, t)
  ELSE Returns(tk)

\* completed, once the handler of a task slot has got to tk
CompletedWith(tk) ==
  IF \/ tk.kind = "service" /\ tk.pc = "done" /\ tk.status = 200
     \/ tk.kind = "simulate" /\ tk.pc = "delay" /\ tk.reportOk
  THEN [ completed EXCEPT ![tk.agent] = @ + 1 ]
  ELSE completed

\* the handlers in flight are an unordered collection (the continuations
\* pending in the event loop): the slots hold them in the order of PendingRank,
\* empty slots last
PcRank(pc) ==
  CASE pc = "report" -> 0 [] pc = "recordEarning" -> 1 [] pc = "distribute" -> 2
    [] pc = "balance" -> 3 [] pc = "fund" -> 4 [] pc = "spawnOnChain" -> 5
    [] pc = "delay" -> 6 [] OTHER -> 7

SpecRank(spec) ==
  IF spec = "" THEN 0
  ELSE CHOOSE i \in 1..Len(SPECIALIZATIONS) : SPECIALIZATIONS[i] = spec

PendingRank(tk) ==
  LET w == MaxWallets + 1
  IN  ((((PcRank(tk.pc) * w + tk.agent) * w + tk.childKey) * w + tk.idx)
          * 2 + (IF tk.kind = "sweep" THEN 1 ELSE 0))
          * 6 + SpecRank(tk.childSpec)

InOrder(f) ==
  \A i \in Tasks : i < MaxTasks => PendingRank(f[i]) <= PendingRank(f[i + 1])

Pending(f) ==
  IF InOrder(f) THEN f
  ELSE CHOOSE g \in { [ i \in Tasks |-> f[p[i]] ] : p \in Permutations(Tasks) } :
         InOrder(g)

\* the handler in slot t has got to tk: a handler that ended leaves the
\* collection, and the step that answers a request shows the answered request
Proceed(t, tk) ==
  /\ tasks' = Pending([ tasks EXCEPT ![t] =
                          IF tk.pc = "done" THEN IdleTask
                          ELSE [ tk EXCEPT !.ledgerOk = TRUE ] ])
  /\ response' = IF tk.pc = "done" /\ tk.kind \in { "service", "simulate" }
                     THEN tk ELSE IdleTask

(***************************************************************************)
(* Steps of POST /service/:wallet and handleServiceCall                    *)
(***************************************************************************)
\* the values of a request's target parameter: absent (or empty), a string
\* that "new PublicKey" rejects, a base58 key
MissingAddress == ""

MalformedAddress == "not-base58"

Base58Address == "base58"

Addresses == { MissingAddress, MalformedAddress, Base58Address }

NoError == << >>

\* variant: an absent parameter is let through
validateAddressPresentOnly(address, label) ==
  IF address = MalformedAddress THEN << "Invalid Solana address for", label >>
  ELSE NoError

\* validateAddress: the Error it throws, NoError when it returns
validateAddress(address, label) ==
  IF address = MissingAddress THEN << "Missing", label >>
  ELSE IF address = MalformedAddress
  THEN << "Invalid Solana address for", label >>
  ELSE NoError

\* the label handleServiceCall passes to validateAddress, per specialization
paramLabel(specialization) ==
  CASE specialization = "token-risk-analysis"     -> "mint"
    [] specialization = "wallet-behavior-scoring" -> "address"
    [] specialization = "protocol-health-monitor" -> "programId"
    [] specialization = "mev-detection"           -> "address"
    [] specialization = "liquidity-analysis"      -> "pool"

\* the route up to "await analyze...(...)": lookup, validateAddress
ServiceRoute(t, wallet, address) ==
  /\ tasks[t].pc = "idle"
  /\ callsStarted' = callsStarted + 1
  /\ Proceed(t,
       IF wallet \notin DOMAIN runningAgents
       THEN [ IdleTask EXCEPT !.kind = "service", !.pc = "done", !.status = 404,
                              !.address = address ]
       ELSE LET thrown == validateAddress(
                            address,
                            paramLabel(runningAgents[wallet].specialization))
                tk == [ IdleTask EXCEPT !.kind = "service", !.agent = wallet,
                                        !.address = address ]
            IN  IF thrown # NoError
                THEN Respond([ tk EXCEPT !.error = TRUE, !.message = thrown ])
                ELSE [ tk EXCEPT !.pc = "report", !.invoked = TRUE ])
  /\ UNCHANGED << runningAgents, order, completed, ledger >>

\* a request reaches POST /service/:wallet
ReceiveServiceRequest(t, wallet, address) ==
  /\ ServiceRoute(t, wallet, address)
  /\ UNCHANGED unitVars

\* variant: the earning is credited although the report service rejected
ReportRejectedButCredited(st) == CreditEarning(st)

\* "result = await analyze...(...)" rejects: handleServiceCall throws out of
\* the switch and the lines that credit the agent are not reached
ReportRejected(st) == st

\* the report service settles; on success the counters are credited and
\* anchorRecordEarning is called
ReportReturns(t, ok) ==
  LET tk == tasks[t]
  IN  /\ tk.pc = "report"
      /\ IF ok
         THEN /\ runningAgents' =
                   [ runningAgents EXCEPT ![tk.agent] = CreditEarning(@) ]
              /\ Proceed(t, [ tk EXCEPT !.pc = "recordEarning",
                                        !.reportOk = TRUE ])
              /\ ledger' = [ ledger EXCEPT !.recordEarning = @ + 1 ]
         ELSE /\ runningAgents' =
                   [ runningAgents EXCEPT ![tk.agent] = ReportRejected(@) ]
              /\ Proceed(t, Returns([ tk EXCEPT !.error = TRUE ]))
              /\ UNCHANGED ledger
      /\ UNCHANGED << order, callsStarted, completed >>
      /\ UNCHANGED unitVars

\* variant: the share is added to the parent's earnings in process
parentCredited(agents, parentWallet, amt) ==
  [ agents EXCEPT ![parentWallet].totalEarned = @ + amt ]

\* distributeRevenue hands the share to distributeToParent only: the
\* parent's HydraAgent is not looked up and no agent is written
parentInProcess(agents, parentWallet, amt) == agents

\* anchorRecordEarning settles; distributeRevenue runs up to its ledger
\* call, or returns at once and checkAndSpawn follows
RecordEarningSettled(t, ok) ==
  LET tk  == SwallowLedgerOutcome(tasks[t], ok)
      amt == distributeRevenue(runningAgents[tk.agent].parentWallet,
                               SERVICE_PRICE_LAMPORTS)
      nxt == IF amt # NoCall
             THEN [ tk EXCEPT !.pc = "distribute", !.sent = amt ]
             ELSE CheckAndSpawn(tk, runningAgents, t)
  IN  /\ tasks[t].pc = "recordEarning"
      /\ amt = NoCall => KeyBoundAllows(tk, runningAgents, t)
      /\ Proceed(t, nxt)
      /\ ledger' = IF amt # NoCall
                   THEN [ ledger EXCEPT !.distribute = @ + 1,
                                        !.distributed = @ + amt ]
                   ELSE ledger
      /\ completed' = CompletedWith(nxt)
      /\ runningAgents' =
           IF amt # NoCall
           THEN parentInProcess(runningAgents,
                                runningAgents[tk.agent].parentWallet, amt)
           ELSE runningAgents
      /\ UNCHANGED << order, callsStarted >>

\* the same where the ledger client is not looked into: what it returns is
\* an input of the step
RecordEarningReturns(t, ok) ==
  /\ RecordEarningSettled(t, ok)
  /\ UNCHANGED unitVars

\* distributeToParent settles; checkAndSpawn follows
DistributeSettled(t, ok) ==
  LET tk  == SwallowLedgerOutcome(tasks[t], ok)
      nxt == CheckAndSpawn(tk, runningAgents, t)
  IN  /\ tasks[t].pc = "distribute"
      /\ KeyBoundAllows(tk, runningAgents, t)
      /\ Proceed(t, nxt)
      /\ completed' = CompletedWith(nxt)
      /\ UNCHANGED << runningAgents, order, callsStarted, ledger >>

\* the same where the ledger client is not looked into: what it returns is
\* an input of the step
DistributeReturns(t, ok) ==
  /\ DistributeSettled(t, ok)
  /\ UNCHANGED unitVars

(***************************************************************************)
(* Steps of spawnChild and the completion of checkAndSpawn                 *)
(***************************************************************************)
\* "balance >= fundingAmount + 0.01 * LAMPORTS_PER_SOL"
CoversFunding(balance) == balance >= fundingAmount + fundingMargin

\* balances the ledger may report for the parent
Balances == { fundingAmount + fundingMargin - 1, fundingAmount + fundingMargin }

\* connection.getBalance settles: the transfer is sent if the balance covers
\* it; otherwise (or when the fetch threw) spawnChildOnChain is called
BalanceReturns(t, ok, balance) ==
  LET tk == SwallowLedgerOutcome(tasks[t], ok)
  IN  /\ tasks[t].pc = "balance"
      /\ Proceed(t, [ tk EXCEPT !.pc = IF ok /\ CoversFunding(balance)
                                       THEN "fund" ELSE "spawnOnChain" ])
      /\ UNCHANGED << runningAgents, order, callsStarted, completed, ledger >>
      /\ UNCHANGED unitVars

\* sendAndConfirmTransaction settles; spawnChildOnChain is called
FundReturns(t, ok) ==
  LET tk == SwallowLedgerOutcome(tasks[t], ok)
  IN  /\ tasks[t].pc = "fund"
      /\ Proceed(t, [ tk EXCEPT !.pc = "spawnOnChain" ])
      /\ UNCHANGED << runningAgents, order, callsStarted, completed, ledger >>
      /\ UNCHANGED unitVars

\* variant: the agent is constructed but not put into runningAgents
startChildAgentUnregistered(agents, key, st) == agents

\* startChildAgent: construct the child and put it into the registry
startChildAgent(agents, key, st) == RegistrySet(agents, key, st)

\* the tail of spawnChild and the try branch of checkAndSpawn: the child is
\* registered, its ChildRef pushed, the earnings reset
SpawnSucceeded(agents, tk) ==
  LET parent == agents[tk.agent]
      child  == NewAgentState(tk.childSpec, parent.depth + 1, tk.agent)
      reg    == startChildAgent(agents, tk.childKey, child)
  IN  [ reg EXCEPT ![tk.agent] =
          CompleteSpawn(@, ChildRef(tk.childKey, tk.childSpec)) ]

\* variant: the catch branch resets the earnings as well
SpawnFailedWithReset(agents, tk) ==
  [ agents EXCEPT ![tk.agent].totalEarned = 0 ]

\* the catch branch of checkAndSpawn: the error is logged
SpawnFailed(agents, tk) == agents

\* variant: the spawn is given up when spawnChildOnChain failed
spawnGoesOnIfRegistered(ok, constructed) == ok /\ constructed

\* spawnChild after "await spawnChildOnChain(...)": null or a caught error
\* is logged and startChildAgent is called whatever the ledger said; the
\* spawn goes on unless the construction of the agent throws
spawnGoesOn(ok, constructed) == constructed

\* spawnChildOnChain settles; then either the child agent is constructed and
\* registered and checkAndSpawn finishes the spawn, or the construction
\* throws and checkAndSpawn catches it; the caller of checkAndSpawn goes on
SpawnChildOnChainSettled(t, ok, constructed) ==
  LET tk   == SwallowLedgerOutcome(tasks[t], ok)
      goes == spawnGoesOn(ok, constructed)
      reg  == IF goes THEN SpawnSucceeded(runningAgents, tk)
              ELSE SpawnFailed(runningAgents, tk)
      ord  == IF goes THEN OrderSet(order, tk.childKey) ELSE order
      tk1  == IF goes THEN [ tk EXCEPT !.spawned = TRUE ]
              ELSE [ tk EXCEPT !.aborted = TRUE ]
      nxt  == AfterCheckAndSpawn(tk1, reg, ord, t)
  IN  /\ tasks[t].pc = "spawnOnChain"
      /\ tk.kind = "sweep" => SweepKeyBoundAllows(reg, ord, tk.idx + 1, t)
      /\ runningAgents' = reg
      /\ order' = ord
      /\ Proceed(t, nxt)
      /\ completed' = CompletedWith(nxt)
      /\ UNCHANGED << callsStarted, ledger >>

\* the same where the ledger client is not looked into: what it returns is
\* an input of the step
SpawnChildOnChainReturns(t, ok, constructed) ==
  /\ SpawnChildOnChainSettled(t, ok, constructed)
  /\ UNCHANGED unitVars

(***************************************************************************)
(* The periodic sweep of startAutoSpawnLoop                                *)
(***************************************************************************)
\* the interval fires: the loop runs up to the first checkAndSpawn that awaits
SweepTick(t) ==
  /\ tasks[t].pc = "idle"
  /\ SweepKeyBoundAllows(runningAgents, order, 1, t)
  /\ Proceed(t, SweepFrom(tasks[t], runningAgents, order, 1, t))
  /\ UNCHANGED << runningAgents, order, callsStarted, completed, ledger >>
  /\ UNCHANGED unitVars

(***************************************************************************)
(* Specifications                                                          *)
(***************************************************************************)
\* a new handler takes the first slot that holds none
Free(t) ==
  /\ tasks[t].pc = "idle"
  /\ \A u \in Tasks : tasks[u].pc = "idle" => t <= u

\* a wallet that names no agent
UnknownWallet == MaxWallets + 1

\* the :wallet of a request: a registered agent, or not
Requested == DOMAIN runningAgents \cup { UnknownWallet }

Next ==
  \/ \E t \in Tasks, w \in Requested, address \in Addresses :
       Free(t) /\ callsStarted < MaxCalls /\ ReceiveServiceRequest(t, w, address)
  \/ \E t \in Tasks, ok \in BOOLEAN : ReportReturns(t, ok)
  \/ \E t \in Tasks, ok \in BOOLEAN : RecordEarningReturns(t, ok)
  \/ \E t \in Tasks, ok \in BOOLEAN : DistributeReturns(t, ok)
  \/ \E t \in Tasks, ok \in BOOLEAN, b \in Balances : BalanceReturns(t, ok, b)
  \/ \E t \in Tasks, ok \in BOOLEAN : FundReturns(t, ok)
  \/ \E t \in Tasks, ok \in BOOLEAN, c \in BOOLEAN :
       SpawnChildOnChainReturns(t, ok, c)
  \/ \E t \in Tasks : Free(t) /\ SweepTick(t)

Spec == Init /\ [][Next]_vars

TypeOK ==
  /\ DOMAIN runningAgents \subseteq Wallets
  /\ \A t \in Tasks : tasks[t].pc \in
       { "idle", "report", "recordEarning", "distribute" } \cup Provisioning
  /\ response.pc \in { "idle", "done" }

(***************************************************************************)
(* Sequential scenario: one client calling a freshly spawned depth-1 agent *)
(* again and again, each request sent after the previous one was answered, *)
(* every report succeeding and every spawnChild completing.                *)
(***************************************************************************)
\* the root's first child, as registered by 50 calls to the root
SeqChildTarget == 2

InitSeqChild ==
  /\ InitWith(RunPlan(InitialRegistry, << <<RootWallet, 50>> >>))
  /\ UnitsIdle

NextSeqChild ==
  \/ callsStarted < MaxSeqCalls /\ ReceiveServiceRequest(1, SeqChildTarget, Base58Address)
  \/ ReportReturns(1, TRUE)
  \/ \E ok \in BOOLEAN : RecordEarningReturns(1, ok)
  \/ \E ok \in BOOLEAN : DistributeReturns(1, ok)
  \/ \E ok \in BOOLEAN, b \in Balances : BalanceReturns(1, ok, b)
  \/ \E ok \in BOOLEAN : FundReturns(1, ok)
  \/ \E ok \in BOOLEAN : SpawnChildOnChainReturns(1, ok, TRUE)

SpecSeqChild == InitSeqChild /\ [][NextSeqChild]_vars

(***************************************************************************)
(* distributeRevenue taken alone, for any earning and with or without a    *)
(* parent                                                                  *)
(***************************************************************************)
Earnings ==
  0..MaxEarning \cup { BPS_DENOMINATOR - 1, BPS_DENOMINATOR + 1,
                       SERVICE_PRICE_LAMPORTS - 1, SERVICE_PRICE_LAMPORTS,
                       SPAWN_THRESHOLD_LAMPORTS }

InitDist ==
  /\ InitWith(InitialRegistry)
  /\ rl = RlIdle
  /\ lc = LcIdle
  /\ \E e \in Earnings, p \in { NoWallet, RootWallet } :
       dr = [ DrIdle EXCEPT !.pc = "called", !.earningAmount = e,
                            !.parentWallet = p ]

\* distributeRevenue runs up to "await distributeToParent(...)" or returns
DistributeRevenueRuns ==
  /\ dr.pc = "called"
  /\ LET amt == distributeRevenue(dr.parentWallet, dr.earningAmount)
     IN  dr' = [ dr EXCEPT !.amount = amt,
                           !.pc = IF amt = NoCall THEN "returned" ELSE "awaiting" ]
  /\ UNCHANGED << agentVars, rl, lc >>

\* distributeToParent settles with a transaction reference or with null
DistributeToParentSettles(ok) ==
  /\ dr.pc = "awaiting"
  /\ dr' = [ dr EXCEPT !.pc = "returned", !.tx = IF ok THEN "tx" ELSE "null" ]
  /\ UNCHANGED << agentVars, rl, lc >>

NextDist ==
  \/ DistributeRevenueRuns
  \/ \E ok \in BOOLEAN : DistributeToParentSettles(ok)

SpecDist == InitDist /\ [][NextDist]_vars

(***************************************************************************)
(* Properties                                                              *)
(***************************************************************************)
Registered == DOMAIN runningAgents

\* the tasks inside spawnChild on behalf of agent w
ProvisioningFor(w) ==
  { t \in Tasks : tasks[t].pc \in Provisioning /\ tasks[t].agent = w }

\* C1: for every agent, at most one spawnChild is in flight at any time: a
\* sweep-triggered and a request-triggered checkAndSpawn never both pass the
\* eligibility checks and both provision a child for the same crossing.
C1_AtMostOneSpawnInFlight ==
  \A w \in Registered : Cardinality(ProvisioningFor(w)) <= 1

\* C2: in every reachable state every agent's children list has at most 3
\* entries (the fan-out cap).
C2_FanOutCap ==
  \A w \in Registered : Len(runningAgents[w].children) <= MAX_CHILDREN

\* C3: a spawned agent's depth is its spawner's depth plus one, the root has
\* depth 0, no agent has depth >= 5, and an agent at depth 4 never spawns:
\* it has no child and no spawnChild in flight, whatever it has earned.
C3_DepthDiscipline ==
  \A w \in Registered :
    LET st == runningAgents[w]
    IN  /\ st.depth < SPAWN_DEPTH_CEILING + 1
        /\ st.parentWallet = NoWallet => w = RootWallet /\ st.depth = 0
        /\ st.parentWallet # NoWallet =>
             /\ st.parentWallet \in Registered
             /\ st.depth = runningAgents[st.parentWallet].depth + 1
        /\ \A i \in 1..Len(st.children) :
             st.children[i].wallet \in Registered =>
               runningAgents[st.children[i].wallet].depth = st.depth + 1
        /\ st.depth = SPAWN_DEPTH_CEILING =>
             st.children = << >> /\ ProvisioningFor(w) = {}

\* an agent at depth 4 has earned the threshold, its request was answered,
\* and it has not spawned
C3_Witness ==
  /\ response.status = 200
  /\ runningAgents[response.agent].depth = SPAWN_DEPTH_CEILING
  /\ runningAgents[response.agent].totalEarned >= SPAWN_THRESHOLD_LAMPORTS

\* the step of task t completes a spawn by agent w
CompletesSpawn(t, w) ==
  /\ tasks[t].pc = "spawnOnChain" /\ tasks[t].agent = w
  /\ tasks[t].childKey \notin Registered
  /\ tasks[t].childKey \in DOMAIN runningAgents'

\* C4: totalEarned is set to zero only by the step that completes a
\* successful spawn by that agent, every such step resets it, and no other
\* step (service call, failed spawn, no-op spawn check, revenue
\* distribution) decreases it.
C4_ResetOnlyBySpawn ==
  [][ \A w \in Registered :
        LET before == runningAgents[w]
            after  == runningAgents'[w]
            spawns == \E t \in Tasks : CompletesSpawn(t, w)
        IN  /\ after.totalEarned < before.totalEarned =>
                 spawns /\ after.totalEarned = 0
            /\ spawns =>
                 /\ after.totalEarned = 0
                 /\ Len(after.children) = Len(before.children) + 1
            /\ ~ spawns =>
                 /\ after.children = before.children
                 /\ after.totalEarned >= before.totalEarned ]_vars

\* a request has completed a spawn and its agent's earnings are back at zero
C4_Witness ==
  /\ response.spawned
  /\ runningAgents[response.agent].totalEarned = 0
  /\ runningAgents[response.agent].children # << >>

\* the handleServiceCall invocations on w that are past the credit and have
\* not returned yet
InFlightCredited(w) ==
  { t \in Tasks : /\ tasks[t].kind = "service"
                  /\ tasks[t].pc \in Credited
                  /\ tasks[t].agent = w }

\* the handlers of requests to w that are at position pc
At(pc, w) == { t \in Tasks : tasks[t].pc = pc /\ tasks[t].agent = w }

\* the step is one in which the report of a request to w arrives
ReportArrives(w) ==
  /\ Cardinality(At("report", w)') = Cardinality(At("report", w)) - 1
  /\ Cardinality(At("recordEarning", w)') =
       Cardinality(At("recordEarning", w)) + 1

\* C5: each invocation whose report succeeds adds the fee and one call in a
\* single step; serviceCallCount equals the number of invocations that got
\* their report (returned or still in flight), and it never decreases.
C5_CountersAtomic ==
  /\ [] ( \A w \in Registered :
            runningAgents[w].serviceCallCount =
              completed[w] + Cardinality(InFlightCredited(w)) )
  /\ [][ \A w \in Registered :
           LET before == runningAgents[w]
               after  == runningAgents'[w]
           IN  /\ after.serviceCallCount >= before.serviceCallCount
               /\ ReportArrives(w) =>
                    /\ after.serviceCallCount = before.serviceCallCount + 1
                    /\ after.totalEarned =
                         before.totalEarned + SERVICE_PRICE_LAMPORTS
               /\ ~ ReportArrives(w) =>
                    after.serviceCallCount = before.serviceCallCount ]_vars

\* two invocations on the same agent are in flight, both past their credit
C5_Witness ==
  \E w \in Registered :
    /\ Cardinality(InFlightCredited(w)) = 2
    /\ runningAgents[w].serviceCallCount = completed[w] + 2

\* C6: whenever the report service succeeded, the invocation does not
\* throw, its counters stay credited, and the route answers 200, whatever
\* the outcomes of the ledger calls it awaited.
C6_LedgerFailuresSwallowed ==
  /\ \A t \in Tasks :
       (tasks[t].kind = "service" /\ tasks[t].reportOk) =>
         /\ ~ tasks[t].error
         /\ tasks[t].pc \in Credited
         /\ runningAgents[tasks[t].agent].serviceCallCount
              > completed[tasks[t].agent]
  /\ response.reportOk =>
       /\ ~ response.error
       /\ response.status = 200
       /\ completed[response.agent] >= 1

\* a request to a non-root agent was answered 200 in the step in which its
\* spawn-child registration failed on the ledger
C6_Witness ==
  /\ response.status = 200 /\ response.spawned
  /\ response.sent # NoCall /\ ~ response.ledgerOk

\* the step is one in which the spawnChild of task t throws: the handler
\* has left "await spawnChildOnChain(...)" and its child was not registered
SpawnThrows(t) ==
  /\ tasks[t].pc = "spawnOnChain"
  /\ \A u \in Tasks : tasks'[u].pc = "spawnOnChain" =>
                        tasks'[u].childKey # tasks[t].childKey
  /\ tasks[t].childKey \notin DOMAIN runningAgents'

\* C7: a spawn is never partially applied: the step in which spawnChild
\* throws leaves every agent and the registry as they were, and a step that
\* resets totalEarned has also registered the child and appended its
\* ChildRef.
C7_SpawnAllOrNothing ==
  [][ /\ (\E t \in Tasks : SpawnThrows(t)) =>
           runningAgents' = runningAgents /\ order' = order
      /\ \A w \in Registered :
           (runningAgents'[w].totalEarned = 0
              /\ runningAgents[w].totalEarned > 0) =>
             LET kids == runningAgents'[w].children
             IN  /\ Len(kids) = Len(runningAgents[w].children) + 1
                 /\ kids[Len(kids)].wallet \in DOMAIN runningAgents'
                 /\ kids[Len(kids)].wallet \notin Registered
                 /\ runningAgents'[kids[Len(kids)].wallet].parentWallet = w ]_vars

\* a request's spawnChild threw and its agent still holds its earnings
C7_Witness ==
  /\ response.aborted
  /\ runningAgents[response.agent].totalEarned >= SPAWN_THRESHOLD_LAMPORTS
  /\ runningAgents[response.agent].children = << >>

\* n is floor(e * REVENUE_SHARE_BPS / 10000); 2000 / 10000 = 1 / 5
IsFloorOfShare(n, e) == 5 * n <= e /\ e < 5 * (n + 1)

\* C8: distributeRevenue calls distributeToParent if and only if the agent
\* has a parent and floor(earning * shareBps / 10000) > 0, with exactly that
\* amount (2,000,000 for the 10,000,000-lamport fee); a root never calls
\* it and a zero share is never sent.
C8_DistributeIffShare ==
  dr.pc \in { "awaiting", "returned" } =>
    /\ dr.amount # NoCall <=>
         (dr.parentWallet # NoWallet /\ ~ IsFloorOfShare(0, dr.earningAmount))
    /\ dr.amount # NoCall => IsFloorOfShare(dr.amount, dr.earningAmount)
    /\ (dr.parentWallet # NoWallet /\ dr.earningAmount = SERVICE_PRICE_LAMPORTS)
         => dr.amount = 2000000
    /\ dr.pc = "awaiting" => dr.amount # NoCall

\* the share of the configured fee was handed to distributeToParent
C8_Witness ==
  /\ dr.pc = "returned" /\ dr.parentWallet # NoWallet
  /\ dr.earningAmount = SERVICE_PRICE_LAMPORTS /\ dr.amount = 2000000

\* C9: from a spawn-eligible non-root agent with zero earnings, the first
\* 49 successful calls spawn nothing, the 50th spawns exactly one child and
\* leaves totalEarned at 0, and the 50 calls issue 50 distribute-to-parent
\* calls of 2,000,000 lamports each, 100,000,000 in total.
C9_FiftyCallsOneSpawn ==
  LET st == runningAgents[SeqChildTarget]
      n  == completed[SeqChildTarget]
  IN  tasks[1].pc = "idle" =>
        /\ n < 50 => /\ st.children = << >>
                     /\ st.totalEarned = n * SERVICE_PRICE_LAMPORTS
                     /\ ~ response.spawned
        /\ n = 50 => /\ Len(st.children) = 1
                     /\ response.spawned
                     /\ st.totalEarned = 0
        /\ n <= 50 => /\ ledger.distribute = n
                      /\ ledger.distributed = n * 2000000
        /\ n >= 1 => response.sent = 2000000

\* the 50th call has been answered
C9_Witness ==
  /\ completed[SeqChildTarget] = 50
  /\ tasks[1].pc = "idle" /\ response.status = 200
  /\ ledger.distributed = 100000000

\* C10: the root has at most 3 children, with pairwise distinct
\* specializations, none equal to the root's own.
C10_RootChildrenDistinct ==
  LET root == runningAgents[RootWallet]
      kids == root.children
  IN  /\ Len(kids) <= MAX_CHILDREN
      /\ \A i, j \in 1..Len(kids) :
           i # j => kids[i].specialization # kids[j].specialization
      /\ \A i \in 1..Len(kids) : kids[i].specialization # root.specialization

\* the keys registered by the step
NewlyRegistered == DOMAIN runningAgents' \ DOMAIN runningAgents

\* C11: immediately after every successful spawn the parent's totalEarned
\* is exactly 0, and the child is created with totalEarned 0,
\* serviceCallCount 0, no children and its parent set to the agent whose
\* spawnChild registered it.
C11_SpawnLeavesZeroes ==
  [][ \A k \in NewlyRegistered :
        LET child == runningAgents'[k]
        IN  /\ child.totalEarned = 0
            /\ child.serviceCallCount = 0
            /\ child.children = << >>
            /\ \E t \in Tasks :
                 /\ tasks[t].pc = "spawnOnChain" /\ tasks[t].childKey = k
                 /\ child.parentWallet = tasks[t].agent
                 /\ child.specialization = tasks[t].childSpec
            /\ child.parentWallet \in Registered
            /\ runningAgents'[child.parentWallet].totalEarned = 0 ]_vars

\* a request has just completed a spawn: the newest agent is its child, with
\* nothing earned and nothing served, and the parent's earnings are zero
C11_Witness ==
  /\ response.spawned
  /\ LET k == order[Len(order)]
     IN  /\ runningAgents[k].parentWallet = response.agent
         /\ runningAgents[k].totalEarned = 0
         /\ runningAgents[k].serviceCallCount = 0
         /\ runningAgents[k].children = << >>
  /\ runningAgents[response.agent].totalEarned = 0
  /\ runningAgents[response.agent].serviceCallCount >= 50

\* the step is one in which the report service rejects a request to w
ReportFails(w) ==
  /\ Cardinality(At("report", w)') = Cardinality(At("report", w)) - 1
  /\ Cardinality(At("recordEarning", w)') = Cardinality(At("recordEarning", w))

\* the handlers that are inside checkAndSpawn's spawnChild
Spawning == { tasks[t] : t \in { u \in Tasks : tasks[u].pc \in Provisioning } }

\* C12: if the report service fails for a request, handleServiceCall fails
\* (the route answers 400) and the agent's totalEarned, serviceCallCount and
\* children are unchanged; no record-earning or distribute-to-parent ledger
\* call is issued and no spawn check runs for that request.
C12_ReportFailureLeavesAgent ==
  [][ \A w \in Registered :
        ReportFails(w) =>
          /\ runningAgents' = runningAgents /\ order' = order
          /\ ledger' = ledger
          /\ completed' = completed
          /\ Spawning' = Spawning
          /\ response'.agent = w /\ response'.invoked
          /\ response'.error /\ response'.status = 400
          /\ ~ response'.reportOk /\ response'.sent = NoCall
          /\ ~ response'.spawned /\ ~ response'.aborted ]_vars

\* the report service rejected the request of an agent that the 50th credit
\* would have made spawn: the agent is one call short as before
C12_Witness ==
  /\ response.invoked /\ ~ response.reportOk /\ response.status = 400
  /\ runningAgents[response.agent].totalEarned =
       SPAWN_THRESHOLD_LAMPORTS - SERVICE_PRICE_LAMPORTS
  /\ runningAgents[response.agent].serviceCallCount = completed[response.agent]
  /\ ledger = NoLedgerCalls

\* the request answered by the last step was turned away before the report
\* service: its agent is not registered, or its target failed validateAddress
TurnedAway(r) == r.pc = "done" /\ ~ r.invoked

\* C13: a request whose target for the agent's specialization is missing or
\* malformed is answered 400 with an error naming the field, a request for
\* an identity that is not registered is answered 404, and in both cases
\* the report service is not invoked, no agent state changes and no ledger
\* call is issued.
C13_RejectedBeforeReport ==
  /\ [] ( /\ \A t \in Tasks :
               tasks[t].invoked => /\ tasks[t].address = Base58Address
                                   /\ tasks[t].agent \in Registered
          /\ response.pc = "done" =>
               /\ response.agent = NoWallet <=> response.status = 404
               /\ response.invoked => response.address = Base58Address
               /\ (response.agent # NoWallet
                     /\ response.address # Base58Address) =>
                    /\ response.status = 400 /\ ~ response.invoked
                    /\ Len(response.message) = 2
                    /\ response.message[2] =
                         paramLabel(runningAgents[response.agent].specialization) )
  /\ [][ TurnedAway(response') =>
           /\ runningAgents' = runningAgents /\ order' = order
           /\ ledger' = ledger /\ completed' = completed
           /\ Spawning' = Spawning
           /\ \A w \in Registered :
                Cardinality(At("report", w)') = Cardinality(At("report", w)) ]_vars

\* a request to the root without its mint parameter was answered 400, the
\* error naming the field
C13_Witness ==
  /\ response.status = 400 /\ ~ response.invoked
  /\ response.agent = RootWallet /\ response.address = MissingAddress
  /\ response.message = << "Missing", "mint" >>
  /\ ledger = NoLedgerCalls

\* a request for an identity that names no agent was answered 404
C13_WitnessNotFound ==
  /\ response.status = 404 /\ response.agent = NoWallet /\ ~ response.invoked

(***************************************************************************)
(* The rate limiter taken alone: requests of a few callers reach           *)
(* rateLimit while the clock advances and the pruning timer fires.  The    *)
(* start states are those a burst of requests of caller 1 at one instant   *)
(* reaches.                                                                *)
(***************************************************************************)
\* "now - ts < RATE_LIMIT_WINDOW_MS"
InWindow(now, ts) == now - ts < RATE_LIMIT_WINDOW_MS

\* window.filter((ts) => now - ts < RATE_LIMIT_WINDOW_MS)
recentOf(window, now) == SelectSeq(window, LAMBDA ts : InWindow(now, ts))

\* variant: the comparison with the limit is ">" for ">="
rateLimitOffByOne(map, ip, now) ==
  LET recent == recentOf(map[ip], now)
  IN  IF Len(recent) > RATE_LIMIT_MAX_REQUESTS
      THEN [ ok |-> FALSE, map |-> map ]
      ELSE [ ok |-> TRUE, map |-> [ map EXCEPT ![ip] = Append(recent, now) ] ]

\* variant: the timestamp of a rejected request is stored as well
rateLimitRecordsRejected(map, ip, now) ==
  LET recent == recentOf(map[ip], now)
  IN  [ ok  |-> Len(recent) < RATE_LIMIT_MAX_REQUESTS,
        map |-> [ map EXCEPT ![ip] = Append(recent, now) ] ]

\* rateLimit(ip): the decision and rateLimitMap after it
rateLimit(map, ip, now) ==
  LET recent == recentOf(map[ip], now)
  IN  IF Len(recent) >= RATE_LIMIT_MAX_REQUESTS
      THEN [ ok |-> FALSE, map |-> map ]
      ELSE [ ok |-> TRUE, map |-> [ map EXCEPT ![ip] = Append(recent, now) ] ]

\* the middleware decides on a request of caller ip
Decide(r, ip) ==
  LET d == rateLimit(r.map, ip, r.now)
  IN  [ r EXCEPT !.map = d.map,
                 !.unswept = rateLimit(@, ip, r.now).map,
                 !.log[ip] = Append(@, [ at |-> r.now, ok |-> d.ok ]) ]

\* n requests of caller ip at one instant
RECURSIVE Burst(_, _, _)
Burst(r, ip, n) ==
  IF n = 0 THEN r
  ELSE CHOOSE x \in { Burst(h, ip, n - 1) : h \in { Decide(r, ip) } } : TRUE

\* lengths of the bursts the start states come from
WarmBursts == { 0, 59, 60 }

InitRate ==
  /\ InitWith(InitialRegistry)
  /\ dr = DrIdle
  /\ lc = LcIdle
  /\ \E n \in WarmBursts : rl = Burst(RlIdle, 1, n)

\* a request of caller ip reaches the middleware
RateLimitedRequest(ip) ==
  /\ rl.requests < MaxRateRequests
  /\ rl' = [ Decide(rl, ip) EXCEPT !.requests = @ + 1 ]
  /\ UNCHANGED << agentVars, dr, lc >>

\* the clock steps considered: one millisecond, one millisecond less than
\* the window, the window
Advances == { 1, RATE_LIMIT_WINDOW_MS - 1, RATE_LIMIT_WINDOW_MS }

\* time passes between two requests
ClockAdvances(d) ==
  /\ rl.advances < MaxAdvances
  /\ rl' = [ rl EXCEPT !.now = @ + d, !.advances = @ + 1 ]
  /\ UNCHANGED << agentVars, dr, lc >>

\* variant: the timer empties the map
prunedAll(map, now) == [ ip \in Callers |-> << >> ]

\* the body of the pruning timer: per entry, "rateLimitMap.delete(ip)" if
\* no timestamp is recent, "rateLimitMap.set(ip, recent)" otherwise
pruned(map, now) == [ ip \in Callers |-> recentOf(map[ip], now) ]

\* the pruning timer: stale timestamps are dropped and an entry left empty
\* is deleted
PruneRateLimitMap ==
  /\ rl' = [ rl EXCEPT !.map = pruned(rl.map, rl.now) ]
  /\ UNCHANGED << agentVars, dr, lc >>

NextRate ==
  \/ \E ip \in Callers : RateLimitedRequest(ip)
  \/ \E d \in Advances : ClockAdvances(d)
  \/ PruneRateLimitMap

SpecRate == InitRate /\ [][NextRate]_vars

\* the requests of log that were let through with a timestamp inside the
\* trailing window ending at t
AdmittedInWindow(log, t) ==
  { i \in 1..Len(log) : log[i].ok /\ log[i].at <= t /\ InWindow(t, log[i].at) }

\* the instants at which a caller's trailing window can be fullest
Instants(log) == { rl.now } \cup { log[i].at : i \in 1..Len(log) }

\* all requests of the caller so far lie in one window
OneWindow(log) == log # << >> /\ InWindow(rl.now, log[1].at)

\* C14: for each caller and every instant t at most 60 of its admitted
\* requests have timestamps inside the trailing 60 s window ending at t; a
\* request is answered 429 exactly when 60 of the caller's admitted requests
\* lie inside the window ending at its arrival; so of max + 5 requests of
\* one caller within one window exactly the first max are admitted and the
\* last 5 rejected.
C14_SlidingWindow ==
  /\ [] ( \A ip \in Callers :
            /\ \A t \in Instants(rl.log[ip]) :
                 Cardinality(AdmittedInWindow(rl.log[ip], t))
                   <= RATE_LIMIT_MAX_REQUESTS
            /\ OneWindow(rl.log[ip]) =>
                 \A i \in 1..Len(rl.log[ip]) :
                   rl.log[ip][i].ok <=> i <= RATE_LIMIT_MAX_REQUESTS )
  /\ [][ \A ip \in Callers :
           Len(rl.log[ip]') = Len(rl.log[ip]) + 1 =>
             LET req == rl.log[ip]'[Len(rl.log[ip]')]
             IN  /\ req.at = rl.now
                 /\ ~ req.ok <=>
                      Cardinality(AdmittedInWindow(rl.log[ip], rl.now))
                        = RATE_LIMIT_MAX_REQUESTS ]_vars

\* caller 1 has sent max + 5 requests within one window, at more than one
\* instant: the first max were admitted and the last 5 rejected
C14_Witness ==
  LET log == rl.log[1]
  IN  /\ Len(log) = RATE_LIMIT_MAX_REQUESTS + 5
      /\ OneWindow(log) /\ log[Len(log)].at > log[1].at
      /\ \A i \in 1..Len(log) : log[i].ok <=> i <= RATE_LIMIT_MAX_REQUESTS

(***************************************************************************)
(* POST /simulate                                                          *)
(***************************************************************************)
Min(a, b) == IF a < b THEN a ELSE b

Max(a, b) == IF a > b THEN a ELSE b

\* variant: the cap is not applied
simulateCallsUncapped(body) ==
  LET rawTwice == IF body.nan \/ body.twice = 0 THEN 20 ELSE body.twice
  IN  Max(1, rawTwice \div 2)

\* "rawCalls = Number(body.calls) || 10;
\*  calls = Math.min(Math.max(1, Math.floor(rawCalls)), MAX_SIMULATE_CALLS)"
simulateCalls(body) ==
  LET rawTwice == IF body.nan \/ body.twice = 0 THEN 20 ELSE body.twice
  IN  Min(Max(1, rawTwice \div 2), MAX_SIMULATE_CALLS)

\* the parameters of an attempt: SIMULATION_PARAMS[specialization], with
\* targetMint for mint when given and the agent analyses token risk
SimulationAddress(body, specialization) ==
  IF body.targetMint # "" /\ specialization = "token-risk-analysis"
  THEN body.targetMint
  ELSE Base58Address

\* one pass of the loop body on the agent drawn, up to its first await:
\* handleServiceCall validates and calls the report service, or throws and
\* the catch block records the error
SimulateIteration(tk, agents, w) ==
  LET spec    == agents[w].specialization
      address == SimulationAddress(tk.body, spec)
      thrown  == validateAddress(address, paramLabel(spec))
      fresh   == [ tk EXCEPT !.agent = w, !.address = address,
                             !.invoked = FALSE, !.reportOk = FALSE,
                             !.error = FALSE, !.message = NoError,
                             !.sent = NoCall,
                             !.spawned = FALSE, !.aborted = FALSE ]
  IN  IF thrown # NoError
      THEN AfterAttempt([ fresh EXCEPT !.error = TRUE, !.message = thrown ])
      ELSE [ fresh EXCEPT !.pc = "report", !.invoked = TRUE ]

\* the agents array of a simulate handler, as a set
Drawn(agents) == { agents[j] : j \in 1..Len(agents) }

\* the route up to the first await of the loop; w is the agent that
\* Math.random picks
SimulateRoute(t, body, w) ==
  LET tk == [ IdleTask EXCEPT !.kind = "simulate", !.body = body,
                              !.calls = simulateCalls(body),
                              !.agents = order ]
  IN  /\ tasks[t].pc = "idle"
      /\ w \in Drawn(tk.agents)
      /\ callsStarted' = callsStarted + 1
      /\ Proceed(t, SimulateIteration(tk, runningAgents, w))
      /\ UNCHANGED << runningAgents, order, completed, ledger >>

\* a request reaches POST /simulate
SimulateBegins(t, body, w) ==
  /\ SimulateRoute(t, body, w)
  /\ UNCHANGED unitVars

\* the 200 ms delay ends: the next pass starts on the agent drawn, or the
\* loop is over and the route answers
DelayEnds(t, w) ==
  LET tk == [ tasks[t] EXCEPT !.i = @ + 1 ]
  IN  /\ tasks[t].pc = "delay"
      /\ w \in Drawn(tk.agents)
      /\ Proceed(t, IF tk.i < tk.calls
                    THEN SimulateIteration(tk, runningAgents, w)
                    ELSE [ tk EXCEPT !.pc = "done", !.status = 200 ])
      /\ UNCHANGED << runningAgents, order, callsStarted, completed, ledger >>
      /\ UNCHANGED unitVars

\* the bodies sent to /simulate: calls absent or not a number; calls -3, 0,
\* 0.5, 1.5, 99.5, 101 and 200; a malformed targetMint
SimBodies ==
  { NoBody } \cup
  { [ nan |-> FALSE, twice |-> h, targetMint |-> "" ] :
      h \in { -6, 0, 1, 3, 199, 202, 400 } } \cup
  { [ nan |-> FALSE, twice |-> 4, targetMint |-> MalformedAddress ] }

\* a single request to /simulate with no other request in flight, from the
\* process as it starts or after the root has spawned its first child
InitSim ==
  /\ \E plan \in { << >>, << <<RootWallet, 50>> >> } :
       InitWith(RunPlan(InitialRegistry, plan))
  /\ UnitsIdle

NextSim ==
  \/ \E body \in SimBodies, w \in Wallets :
       /\ callsStarted = 0
       /\ Len(order) = 1 \/ simulateCalls(body) <= MaxVariedSim
       /\ SimulateBegins(1, body, w)
  \/ \E ok \in BOOLEAN :
       (ok \/ tasks[1].calls <= MaxVariedSim) /\ ReportReturns(1, ok)
  \/ \E ok \in BOOLEAN : RecordEarningReturns(1, ok)
  \/ \E ok \in BOOLEAN : DistributeReturns(1, ok)
  \/ \E ok \in BOOLEAN, b \in Balances : BalanceReturns(1, ok, b)
  \/ \E ok \in BOOLEAN : FundReturns(1, ok)
  \/ \E ok \in BOOLEAN, c \in BOOLEAN : SpawnChildOnChainReturns(1, ok, c)
  \/ \E w \in Wallets : DelayEnds(1, w)

SpecSim == InitSim /\ [][NextSim]_vars

\* min(max(1, floor(n)), 100) for the number n = twice / 2
CappedFloor(twice) ==
  LET fl == CHOOSE f \in -MaxSimNumber..MaxSimNumber :
              2 * f <= twice /\ twice < 2 * (f + 1)
  IN  IF fl < 1 THEN 1 ELSE IF fl > 100 THEN 100 ELSE fl

\* the number of attempts the body asks for
Asked(body) ==
  IF body.nan \/ body.twice = 0 THEN 10 ELSE CappedFloor(body.twice)

\* C19: the simulate endpoint performs exactly min(max(1, floor(N)), 100)
\* service-call attempts for a numeric N (100 for a request for 200), and
\* exactly 10 when N is absent, zero or not a number.
C19_SimulateClamp ==
  /\ \A t \in Tasks :
       tasks[t].kind = "simulate" =>
         /\ tasks[t].calls = Asked(tasks[t].body)
         /\ tasks[t].i < tasks[t].calls
         /\ tasks[t].attempts =
              tasks[t].i + (IF tasks[t].pc = "delay" THEN 1 ELSE 0)
  /\ response.kind = "simulate" =>
       /\ response.attempts = Asked(response.body)
       /\ response.calls = response.attempts
       /\ response.body.twice = 400 => response.attempts = 100

\* a request for 200 calls was answered after 100 attempts
C19_Witness ==
  /\ response.kind = "simulate" /\ response.status = 200
  /\ ~ response.body.nan /\ response.body.twice = 400
  /\ response.attempts = 100

(***************************************************************************)
(* The rate-limit middleware in front of the routes: every request passes  *)
(* app.use("/*") before POST /service/:wallet or POST /simulate sees it.   *)
(* The start states have the root one call short of its spawn threshold    *)
(* and caller 1 at, or one request short of, the limit; one handler runs   *)
(* at a time, and requests keep arriving while it waits, all of them      *)
(* within the window of the start state.                                   *)
(***************************************************************************)
\* requests sent to the server
MaxGateRequests == 3

\* the answer of the middleware to a request it turns away
RateLimitExceeded ==
  [ IdleTask EXCEPT !.kind = "rate-limit", !.pc = "done", !.status = 429 ]

\* variant: next() is called whatever rateLimit returned
callsNextAlways(d) == TRUE

\* "if (!rateLimit(ip)) { return c.json(..., 429); }  await next();"
callsNext(d) == d.ok

\* a request of caller ip for the route passes the middleware: rateLimit
\* decides, and the route runs only behind next()
Middleware(ip, route) ==
  LET d == rateLimit(rl.map, ip, rl.now)
  IN  /\ rl.requests < MaxGateRequests
      /\ rl' = [ Decide(rl, ip) EXCEPT !.requests = @ + 1 ]
      /\ UNCHANGED << dr, lc >>
      /\ IF callsNext(d)
         THEN route
         ELSE /\ response' = RateLimitExceeded
              /\ UNCHANGED << runningAgents, order, tasks, callsStarted,
                              completed, ledger >>

\* the bodies sent to /simulate behind the middleware: calls 1 and 2
GateBodies ==
  { [ nan |-> FALSE, twice |-> h, targetMint |-> "" ] : h \in { 2, 4 } }

InitGate ==
  /\ InitWith(RunPlan(InitialRegistry,
                      << <<RootWallet, 49>> >>))
  /\ dr = DrIdle
  /\ lc = LcIdle
  /\ \E n \in { RATE_LIMIT_MAX_REQUESTS - 1, RATE_LIMIT_MAX_REQUESTS } :
       rl = Burst(RlIdle, 1, n)

NextGate ==
  \/ \E ip \in Callers, w \in Requested, address \in Addresses :
       Middleware(ip, ServiceRoute(1, w, address))
  \/ \E ip \in Callers, body \in GateBodies, w \in Wallets :
       Middleware(ip, SimulateRoute(1, body, w))
  \/ \E ok \in BOOLEAN : ReportReturns(1, ok)
  \/ \E ok \in BOOLEAN : RecordEarningReturns(1, ok)
  \/ \E ok \in BOOLEAN : DistributeReturns(1, ok)
  \/ \E ok \in BOOLEAN, b \in Balances : BalanceReturns(1, ok, b)
  \/ \E ok \in BOOLEAN : FundReturns(1, ok)
  \/ \E ok \in BOOLEAN, c \in BOOLEAN : SpawnChildOnChainReturns(1, ok, c)
  \/ \E w \in Wallets : DelayEnds(1, w)

SpecGate == InitGate /\ [][NextGate]_vars

\* this step is a request of caller ip that rateLimit turned away
Rejected(ip) ==
  /\ Len(rl'.log[ip]) = Len(rl.log[ip]) + 1
  /\ ~ rl'.log[ip][Len(rl'.log[ip])].ok

\* C15: a request rejected by the rate limiter runs no agent logic: it is
\* answered 429 with no registry lookup, no handleServiceCall and no
\* simulate iteration, it changes no agent, not the registry and no handler
\* in flight, and it makes no ledger call.
C15_RejectedRunsNothing ==
  [][ \A ip \in Callers :
        Rejected(ip) =>
          /\ UNCHANGED << runningAgents, order, tasks, callsStarted,
                          completed, ledger >>
          /\ response'.status = 429
          /\ response'.agent = NoWallet
          /\ ~ response'.invoked
          /\ response'.attempts = 0 ]_vars

\* a request was answered 429 while a service handler that had earned a
\* spawn was waiting for the ledger
C15_Witness ==
  /\ response.status = 429
  /\ \E t \in Tasks : tasks[t].kind = "service" /\ tasks[t].pc = "spawnOnChain"

(***************************************************************************)
(* The ledger client (anchor-client): the exported functions, withRetry    *)
(* and trackTx, one call at a time.  A step is the code between two awaits *)
(* on the RPC node or on the backoff timer.  The start states have 0, 49   *)
(* or 50 transactions tracked already.                                     *)
(***************************************************************************)
\* calls of the exported functions
MaxLedgerCalls == 2

LedgerMutations ==
  { "initializeRegistry", "registerRootAgent", "spawnChildOnChain",
    "recordEarningOnChain", "distributeToParent" }

LedgerReads == { "fetchRegistry", "fetchAgentAccount", "fetchAllAgentAccounts" }

\* the mutations that first fetch the account they would create
ChecksExisting == { "initializeRegistry", "registerRootAgent" }

\* the account an instruction creates on the ledger: the registry and one
\* AgentAccount per wallet
accountOf(fn) ==
  CASE fn = "initializeRegistry" -> "registry"
    [] fn = "registerRootAgent"  -> "root"
    [] fn = "spawnChildOnChain"  -> "child"
    [] OTHER                     -> "none"

\* the ledger runs the instruction of the attempt in flight: an account is
\* created once, after that the instruction fails with "already in use";
\* the attempts of one spawnChildOnChain name one child wallet
LedgerTakes(c) ==
  CASE c.fn \in ChecksExisting    -> accountOf(c.fn) \notin c.accounts
    [] c.fn = "spawnChildOnChain" -> c.effects = 0
    [] OTHER                      -> TRUE

\* variant: the mutation is sent whatever the fetch gave
skipsNever(found) == FALSE

\* "if (existing) { ...; return null; }"
skipsIfExisting(found) == found

\* the type tag each mutation passes to trackTx
txType(fn) ==
  CASE fn = "initializeRegistry"   -> "initialize"
    [] fn = "registerRootAgent"    -> "register_root_agent"
    [] fn = "spawnChildOnChain"    -> "spawn_child"
    [] fn = "recordEarningOnChain" -> "record_earning"
    [] fn = "distributeToParent"   -> "distribute_to_parent"

\* variant: nothing is ever popped
trackTxKeepsAll(buf, sig, type, now) ==
  << [ sig |-> sig, type |-> type, ts |-> now ] >> \o buf

\* "recentTxSignatures.unshift({ sig, type, ts: Date.now() });
\*  if (recentTxSignatures.length > 50) recentTxSignatures.pop();"
trackTx(buf, sig, type, now) ==
  LET unshifted == << [ sig |-> sig, type |-> type, ts |-> now ] >> \o buf
  IN  IF Len(unshifted) > RecentTxCapacity
      THEN SubSeq(unshifted, 1, Len(unshifted) - 1)
      ELSE unshifted

\* "baseDelayMs * Math.pow(2, attempt - 1)"
backoffDelay(attempt) == baseDelayMs * 2 ^ (attempt - 1)

\* variant: the delay is taken after every failed attempt
waitsAfterAlways(attempt) == TRUE

\* "if (attempt < maxAttempts)": a failed attempt is followed by a delay
waitsAfter(attempt) == attempt < maxAttempts

\* variant: the catch block lets the error through
catchBlockRethrows(c) == [ c EXCEPT !.pc = "returned", !.escaped = TRUE ]

\* the catch block of an exported function: null, [] for
\* fetchAllAgentAccounts
catchBlock(c) ==
  [ c EXCEPT !.pc = "returned",
             !.result = [ kind |-> IF c.fn = "fetchAllAgentAccounts"
                                   THEN "empty" ELSE "null",
                          sig  |-> NoCall ] ]

\* variant: the loop test lets a 4th attempt through
NextAttemptOneMore(c) ==
  IF Len(c.outcomes) + 1 <= maxAttempts + 1
  THEN [ c EXCEPT !.pc = "attempt" ]
  ELSE catchBlock(c)

\* withRetry after a failed attempt and its delay, if any: "attempt++" and
\* the loop test, then "throw lastError" into the caller's catch block
NextAttempt(c) ==
  IF Len(c.outcomes) + 1 <= maxAttempts
  THEN [ c EXCEPT !.pc = "attempt" ]
  ELSE catchBlock(c)

\* an exported function up to its first await; getProgram may throw inside
\* its try
called(c0, fn, programOk) ==
  LET c == [ c0 EXCEPT !.fn = fn, !.calls = @ + 1, !.sig = NoCall,
                       !.outcomes = << >>, !.delays = << >>,
                       !.result = NoResult, !.escaped = FALSE,
                       !.existing = "none", !.effects = 0 ]
  IN  IF ~ programOk THEN catchBlock(c)
      ELSE IF fn \in ChecksExisting THEN [ c EXCEPT !.pc = "existing" ]
      ELSE IF fn \in LedgerMutations THEN [ c EXCEPT !.pc = "attempt" ]
      ELSE [ c EXCEPT !.pc = "read" ]

\* an exported function is called
LedgerCall(fn, programOk) ==
  /\ lc.pc \in { "idle", "returned" }
  /\ lc.calls < MaxLedgerCalls
  /\ lc' = called(lc, fn, programOk)
  /\ UNCHANGED << agentVars, dr, rl >>

\* the fetch of the existing account settles: it gives the account, and
\* the function returns null; or it throws, for an account that is not
\* there as for a node that does not answer, and the mutation is sent
ExistingReturns(found) ==
  LET c == [ lc EXCEPT !.existing = IF found THEN "found" ELSE "missing" ]
  IN  /\ lc.pc = "existing"
      /\ found => accountOf(lc.fn) \in lc.accounts
      /\ lc' = IF skipsIfExisting(found)
               THEN [ c EXCEPT !.pc = "returned",
                               !.result = [ kind |-> "null", sig |-> NoCall ] ]
               ELSE [ c EXCEPT !.pc = "attempt" ]
  /\ UNCHANGED << agentVars, dr, rl >>

\* "return await fn()" settles: resolved, withRetry returns the signature,
\* the function tracks and returns it; rejected, withRetry waits or goes on.
\* rpc() sends the transaction and waits for its confirmation: it resolves
\* for a transaction that landed, and it rejects for one the ledger refused
\* as for one that landed and whose confirmation did not arrive
AttemptSettles(ok, landed) ==
  LET attempt == Len(lc.outcomes) + 1
      sig     == lc.issued + 1
      c       == [ lc EXCEPT !.outcomes = Append(@, ok), !.now = @ + 1,
                             !.effects = IF landed THEN @ + 1 ELSE @,
                             !.accounts =
                                IF landed /\ lc.fn \in ChecksExisting
                                THEN @ \cup { accountOf(lc.fn) } ELSE @ ]
  IN  /\ lc.pc = "attempt"
      /\ ok => landed
      /\ landed => LedgerTakes(lc)
      /\ lc' = IF ok
               THEN [ c EXCEPT !.pc = "returned", !.sig = sig, !.issued = sig,
                               !.recentTxSignatures =
                                  trackTx(@, sig, txType(c.fn), c.now),
                               !.result = [ kind |-> "tx", sig |-> sig ] ]
               ELSE IF waitsAfter(attempt)
               THEN [ c EXCEPT !.pc = "backoff",
                               !.delays = Append(@, backoffDelay(attempt)) ]
               ELSE NextAttempt(c)
      /\ UNCHANGED << agentVars, dr, rl >>

\* the backoff timer fires
BackoffEnds ==
  /\ lc.pc = "backoff"
  /\ lc' = NextAttempt([ lc EXCEPT !.now = @ + lc.delays[Len(lc.delays)] ])
  /\ UNCHANGED << agentVars, dr, rl >>

\* the fetch of a read call settles
ReadSettles(ok) ==
  LET c == [ lc EXCEPT !.outcomes = Append(@, ok), !.now = @ + 1 ]
  IN  /\ lc.pc = "read"
      /\ lc' = IF ok
               THEN [ c EXCEPT !.pc = "returned",
                               !.result = [ kind |-> "value", sig |-> NoCall ] ]
               ELSE catchBlock(c)
      /\ UNCHANGED << agentVars, dr, rl >>

\* n transactions tracked before the start state
RECURSIVE Tracked(_, _)
Tracked(c, n) ==
  IF n = 0 THEN c
  ELSE CHOOSE x \in
         { [ h EXCEPT !.issued = n,
                      !.recentTxSignatures = trackTx(@, n, "record_earning", 0) ] :
           h \in { Tracked(c, n - 1) } } : TRUE

\* numbers of transactions tracked before the start state
WarmTracked == { 0, RecentTxCapacity - 1, RecentTxCapacity }

InitLedger ==
  /\ InitWith(InitialRegistry)
  /\ dr = DrIdle
  /\ rl = RlIdle
  /\ \E n \in WarmTracked : lc = Tracked(LcIdle, n)

NextLedger ==
  \/ \E fn \in LedgerMutations \cup LedgerReads, programOk \in BOOLEAN :
       LedgerCall(fn, programOk)
  \/ \E found \in BOOLEAN : ExistingReturns(found)
  \/ \E ok, landed \in BOOLEAN : AttemptSettles(ok, landed)
  \/ BackoffEnds
  \/ \E ok \in BOOLEAN : ReadSettles(ok)

SpecLedger == InitLedger /\ [][NextLedger]_vars

\* the delays withRetry takes before its 2nd and 3rd attempt
RetryDelays == << 500, 1000 >>

\* C16: every retry-wrapped ledger call makes at most 3 attempts, stops at
\* the first attempt that succeeds and returns its result, waits 500 ms
\* before the 2nd attempt and 1000 ms before the 3rd, and does not wait
\* after the final failed attempt.
C16_RetryPolicy ==
  LET attempts == Len(lc.outcomes)
      waits    == Len(lc.delays)
  IN  lc.fn \in LedgerMutations =>
        /\ attempts <= 3
        /\ \A k \in 1..(attempts - 1) : ~ lc.outcomes[k]
        /\ waits <= 2
        /\ lc.delays = SubSeq(RetryDelays, 1, waits)
        /\ lc.pc = "attempt" => waits = attempts
        /\ lc.pc = "backoff" => waits = attempts /\ attempts < 3
        /\ (attempts > 0 /\ lc.outcomes[attempts]) =>
             /\ lc.pc = "returned" /\ waits = attempts - 1
             /\ lc.result = [ kind |-> "tx", sig |-> lc.sig ]
             /\ lc.sig = lc.issued
        /\ (lc.pc = "returned" /\ attempts > 0 /\ ~ lc.outcomes[attempts]) =>
             attempts = 3 /\ waits = 2

\* a mutation returned the signature of its 3rd attempt, after waiting
\* 500 ms and 1000 ms
C16_Witness ==
  /\ lc.fn \in LedgerMutations /\ lc.pc = "returned"
  /\ lc.outcomes = << FALSE, FALSE, TRUE >>
  /\ lc.delays = << 500, 1000 >>
  /\ lc.result.kind = "tx" /\ lc.result.sig = lc.sig

\* a mutation gave up after its 3rd failed attempt without a further wait
C16_WitnessExhausted ==
  /\ lc.fn \in LedgerMutations /\ lc.pc = "returned"
  /\ lc.outcomes = << FALSE, FALSE, FALSE >>
  /\ lc.delays = << 500, 1000 >>

\* C17: no LedgerClient function lets a failure escape to its caller: once
\* retries are exhausted each mutation returns null, and on failure
\* fetchRegistry and fetchAgentAccount return null and
\* fetchAllAgentAccounts returns an empty list.
C17_NothingEscapes ==
  /\ ~ lc.escaped
  /\ lc.pc = "returned" =>
       /\ lc.result # NoResult
       /\ (\E k \in 1..Len(lc.outcomes) : lc.outcomes[k]) \/
            lc.result.kind = (IF lc.fn = "fetchAllAgentAccounts"
                              THEN "empty" ELSE "null")

\* spawnChildOnChain returned null after three rejected attempts
C17_Witness ==
  /\ lc.fn = "spawnChildOnChain" /\ lc.pc = "returned"
  /\ Len(lc.outcomes) = 3 /\ \A k \in 1..3 : ~ lc.outcomes[k]
  /\ lc.result.kind = "null" /\ ~ lc.escaped

\* fetchAllAgentAccounts returned an empty list after its fetch rejected
C17_WitnessRead ==
  /\ lc.fn = "fetchAllAgentAccounts" /\ lc.pc = "returned"
  /\ lc.outcomes = << FALSE >>
  /\ lc.result.kind = "empty"

\* the entries of buf are in the order newest to oldest: signatures are
\* handed out in increasing order
NewestFirst(buf) ==
  \A i, j \in 1..Len(buf) :
    i < j => buf[i].sig > buf[j].sig /\ buf[i].ts >= buf[j].ts

\* C18: after any sequence of tracked transactions the recent-transaction
\* buffer holds at most 50 entries ordered newest first, and when a
\* reference is tracked while the buffer is full the entry evicted is the
\* oldest one.
C18_RecentTxBuffer ==
  /\ [](/\ Len(lc.recentTxSignatures) <= 50
        /\ NewestFirst(lc.recentTxSignatures))
  /\ [][ lc'.issued = lc.issued + 1 =>
           LET buf   == lc.recentTxSignatures
               after == lc'.recentTxSignatures
           IN  /\ after[1].sig = lc'.issued
               /\ Tail(after) =
                    IF Len(buf) = 50 THEN SubSeq(buf, 1, 49) ELSE buf ]_vars

\* two transactions were tracked on a full buffer: the two oldest entries
\* are gone and the two new ones lead
C18_Witness ==
  /\ Len(lc.recentTxSignatures) = 50
  /\ lc.issued = 52
  /\ lc.recentTxSignatures[1].sig = 52
  /\ lc.recentTxSignatures[50].sig = 3

\* C20: a child Agent is inserted into the registry before its ChildRef is
\* appended to the parent's children list and before the parent's earnings
\* are reset, so in every reachable state every identity listed in any
\* agent's children list resolves by lookup to an Agent in the registry
\* (the agent spawned for that parent, with that specialization).
C20_ChildrenResolve ==
  \A w \in DOMAIN runningAgents :
    \A i \in 1..Len(runningAgents[w].children) :
      LET child == runningAgents[w].children[i]
      IN  /\ child.wallet \in DOMAIN runningAgents
          /\ runningAgents[child.wallet].parentWallet = w
          /\ runningAgents[child.wallet].specialization = child.specialization

\* a request was answered after its handler spawned a child: the child is
\* the last entry of the parent's children list, the parent's earnings are
\* reset and the lookup of the child finds an agent that has served nothing
C20_Witness ==
  /\ response.status = 200 /\ response.spawned
  /\ response.agent \in DOMAIN runningAgents
  /\ LET parent == runningAgents[response.agent]
         last   == parent.children[Len(parent.children)]
     IN  /\ parent.children # << >>
         /\ parent.totalEarned = 0
         /\ last.wallet \in DOMAIN runningAgents
         /\ runningAgents[last.wallet].parentWallet = response.agent
         /\ runningAgents[last.wallet].serviceCallCount = 0

\* the first element of the fixed order that is neither st's own
\* specialization nor that of one of its children; "" if there is none
FirstUnused(st) ==
  LET used == { st.specialization } \cup
                { st.children[i].specialization : i \in 1..Len(st.children) }
      free == { i \in 1..5 : SPECIALIZATIONS[i] \notin used }
  IN  IF free = {} THEN ""
      ELSE SPECIALIZATIONS[CHOOSE i \in free : \A j \in free : i <= j]

\* the specializations of the root's children, in the order of their spawns
RootSuccession ==
  << "wallet-behavior-scoring", "protocol-health-monitor", "mev-detection" >>

\* C21: whenever an agent spawns, the child's specialization is the first
\* element of the fixed order that is neither the agent's own nor that of
\* any of its current children; the token-risk root's successive children
\* are wallet-behavior-scoring, protocol-health-monitor, mev-detection.
C21_FirstUnusedSpecialization ==
  /\ [][ \A w \in DOMAIN runningAgents :
           Len(runningAgents'[w].children) > Len(runningAgents[w].children) =>
             runningAgents'[w].children[Len(runningAgents'[w].children)]
               .specialization = FirstUnused(runningAgents[w]) ]_vars
  /\ [](LET kids == runningAgents[RootWallet].children
        IN  /\ Len(kids) <= 3
            /\ \A i \in 1..Len(kids) :
                 kids[i].specialization = RootSuccession[i])

(***************************************************************************)
(* Sequential requests and sweeps with the ledger answering at will: the   *)
(* scenario of SpecSeqChild with the 30 s sweep firing between requests.   *)
(* Every getBalance, funding transfer, spawnChildOnChain, record-earning   *)
(* and distribute-to-parent call may succeed or fail, so the run in which  *)
(* all of them succeed and the run in which all of them fail are both      *)
(* behaviours of this specification.                                       *)
(***************************************************************************)
NextSeqLedger ==
  \/ NextSeqChild
  \/ SweepTick(1)

SpecSeqLedger == InitSeqChild /\ [][NextSeqLedger]_vars

\* the in-process state after n complete calls to the first child of the
\* root, as the code leaves it when no ledger call is looked at
AfterCalls(n) ==
  SeqServiceCalls(RunPlan(InitialRegistry, << <<RootWallet, 50>> >>),
                  SeqChildTarget, n)

\* C22: in-process state does not depend on ledger outcomes: for the same
\* sequence of sequentially executed service requests and sweeps, the run in
\* which every ledger call succeeds and the run in which every ledger call
\* fails reach the same totalEarned, serviceCallCount, depth, specialization
\* and children for every agent and the same agents, spawns included: the
\* state between two handlers is a function of the requests served alone.
C22_LedgerBlind ==
  tasks[1].pc = "idle" =>
    /\ runningAgents = AfterCalls(completed[SeqChildTarget]).agents
    /\ order = AfterCalls(completed[SeqChildTarget]).order

\* the 50th call was answered after its spawnChildOnChain had failed, and
\* the child it spawned is registered
C22_Witness ==
  /\ tasks[1].pc = "idle" /\ completed[SeqChildTarget] = 50
  /\ response.status = 200 /\ response.spawned /\ ~ response.ledgerOk
  /\ Len(runningAgents[SeqChildTarget].children) = 1
  /\ Cardinality(DOMAIN runningAgents) = 3

\* the same call was answered after its spawnChildOnChain had succeeded
C22_WitnessLedgerUp ==
  /\ tasks[1].pc = "idle" /\ completed[SeqChildTarget] = 50
  /\ response.status = 200 /\ response.spawned /\ response.ledgerOk

(***************************************************************************)
(* The registry taken alone: startChildAgent applied to a child of the     *)
(* agent registered as the root, under a key the registry does not hold    *)
(* yet or under one it holds.                                              *)
(***************************************************************************)
\* number of agents the registry holds
MaxInserted == 3

\* spawnChild calls startChildAgent for a child of parent, under key;
\* checkAndSpawn lets no agent of depth 4 or more spawn
InsertAgent(key, specialization, parent) ==
  /\ Cardinality(DOMAIN runningAgents) < MaxInserted \/ key \in DOMAIN runningAgents
  /\ runningAgents[parent].depth < SPAWN_DEPTH_CEILING
  /\ runningAgents' =
       startChildAgent(runningAgents, key,
                       NewAgentState(specialization,
                                     runningAgents[parent].depth + 1, parent))
  /\ order' = OrderSet(order, key)
  /\ UNCHANGED << tasks, callsStarted, completed, ledger, response >>
  /\ UNCHANGED unitVars

InitInsert ==
  /\ InitWith(InitialRegistry)
  /\ UnitsIdle

NextInsert ==
  \E key \in 1..(Len(order) + 1), i \in 1..Len(SPECIALIZATIONS) :
    InsertAgent(key, SPECIALIZATIONS[i], RootWallet)

SpecInsert == InitInsert /\ [][NextInsert]_vars

\* what makes an agent the one it was registered as
Identity(st) ==
  << st.specialization, st.depth, st.parentWallet, st.isRoot >>

DeactivateAgent(w) ==
  /\ w \notin ledger.inactive
  /\ ledger' = [ ledger EXCEPT !.inactive = @ \cup { w } ]
  /\ response' = IdleTask
  /\ UNCHANGED << runningAgents, order, tasks, callsStarted, completed >>
  /\ UNCHANGED unitVars

\* the ledger accepts an instruction signed by tasks[1].agent
LedgerAccepts(ok) == ok => tasks[1].agent \notin ledger.inactive

InitDeactivate ==
  /\ \E plan \in { << <<RootWallet, 49>> >>,
                   << <<RootWallet, 50>>, <<SeqChildTarget, 49>> >> } :
       InitWith(RunPlan(InitialRegistry, plan))
  /\ UnitsIdle

NextDeactivate ==
  \/ \E w \in DOMAIN runningAgents : DeactivateAgent(w)
  \/ \E w \in DOMAIN runningAgents :
       callsStarted < MaxCalls /\ ReceiveServiceRequest(1, w, Base58Address)
  \/ \E ok \in BOOLEAN : ReportReturns(1, ok)
  \/ \E ok \in BOOLEAN : LedgerAccepts(ok) /\ RecordEarningReturns(1, ok)
  \/ \E ok \in BOOLEAN : LedgerAccepts(ok) /\ DistributeReturns(1, ok)
  \/ \E ok \in BOOLEAN, b \in Balances : BalanceReturns(1, ok, b)
  \/ \E ok \in BOOLEAN : FundReturns(1, ok)
  \/ \E ok \in BOOLEAN : LedgerAccepts(ok) /\ SpawnChildOnChainReturns(1, ok, TRUE)

SpecDeactivate == InitDeactivate /\ [][NextDeactivate]_vars

\* C24: once an agent is deactivated, no handleServiceCall on it increases
\* its totalEarned or serviceCallCount or issues a record-earning or
\* distribute-to-parent call: the active flag is checked before any
\* mutation, and deactivation is terminal.
C24_DeactivatedAgentFrozen ==
  [][ /\ ledger.inactive \subseteq ledger'.inactive
      /\ \A w \in ledger.inactive :
           /\ runningAgents'[w].totalEarned <= runningAgents[w].totalEarned
           /\ runningAgents'[w].serviceCallCount =
                runningAgents[w].serviceCallCount
           /\ tasks[1].agent = w =>
                /\ ledger'.recordEarning = ledger.recordEarning
                /\ ledger'.distribute = ledger.distribute ]_vars

\* sequence s is the beginning of sequence t
IsPrefix(s, t) == Len(s) <= Len(t) /\ SubSeq(t, 1, Len(s)) = s

\* C25: the registry and every children list only grow: no operation ever
\* removes an agent from the registry, and no operation ever removes,
\* reorders or alters a ChildRef already appended to a parent.
C25_RegistryAndChildrenAppendOnly ==
  [][ /\ IsPrefix(order, order')
      /\ \A w \in DOMAIN runningAgents :
           /\ w \in DOMAIN runningAgents'
           /\ IsPrefix(runningAgents[w].children, runningAgents'[w].children) ]_vars

\* a request to the root was answered after its handler appended the
\* root's third child behind the two it had
C25_Witness ==
  /\ response.status = 200 /\ response.spawned /\ response.agent = RootWallet
  /\ Len(runningAgents[RootWallet].children) = 3
  /\ runningAgents[RootWallet].children[1].wallet = 2
  /\ runningAgents[RootWallet].children[2].wallet = 3
  /\ Cardinality(DOMAIN runningAgents) = 4

(***************************************************************************)
(* On-chain initialization (initOnChain): initializeRegistry and           *)
(* registerRootAgent, run against a ledger that holds the registry and     *)
(* the root's record or not, from an earlier start of the server.          *)
(***************************************************************************)
InitStartup ==
  /\ InitWith(InitialRegistry)
  /\ dr = DrIdle
  /\ rl = RlIdle
  /\ \E a \in SUBSET { "registry", "root" } : lc = [ LcIdle EXCEPT !.accounts = a ]

NextStartup ==
  \/ \E fn \in ChecksExisting, programOk \in BOOLEAN : LedgerCall(fn, programOk)
  \/ \E found \in BOOLEAN : ExistingReturns(found)
  \/ \E ok, landed \in BOOLEAN : AttemptSettles(ok, landed)
  \/ BackoffEnds

SpecStartup == InitStartup /\ [][NextStartup]_vars

\* the call in flight is one of the two initialization functions
Initializing == lc.fn \in ChecksExisting

C26_WitnessRefused ==
  /\ lc.fn = "registerRootAgent" /\ lc.pc = "returned"
  /\ lc.existing = "missing" /\ "root" \in lc.accounts
  /\ lc.outcomes = << FALSE, FALSE, FALSE >> /\ lc.effects = 0
  /\ lc.result.kind = "null"

\* C27: each ledger mutation call, one retry-wrapped attempt sequence of
\* recordEarningOnChain, distributeToParent or spawnChildOnChain, takes
\* effect on the ledger at most once, even when an attempt is reported as
\* failed and is retried.
C27_EffectAtMostOnce ==
  lc.fn \in { "recordEarningOnChain", "distributeToParent",
              "spawnChildOnChain" } => lc.effects <= 1

(***************************************************************************)
(* GET /on-chain: the handler awaits fetchRegistry, then                   *)
(* fetchAllAgentAccounts, and answers with what they returned.             *)
(***************************************************************************)
\* GET /on-chain requests
MaxMirrorRequests == 2

\* "recentTxSignatures.slice(0, 20)"
RecentShown == 20

\* c.json(...) of GET /on-chain: the try block's answer from what the two
\* fetches returned, the catch block's answer if building it threw
onChainResponse(m, registry, agents, buf, threw) ==
  [ m EXCEPT !.pc = "done",
             !.status = 200,
             !.registry = IF threw \/ registry = "null" THEN "null" ELSE "value",
             !.agents = IF threw \/ agents = "empty" THEN "empty" ELSE "list",
             !.shown = IF Len(buf) < RecentShown THEN Len(buf) ELSE RecentShown,
             !.error = threw ]

\* GET /on-chain up to "await fetchRegistry()"
OnChainRoute(programOk) ==
  /\ lc.mirror.pc \in { "idle", "done" }
  /\ lc.pc \in { "idle", "returned" }
  /\ lc.mirror.requests < MaxMirrorRequests
  /\ lc' = [ called(lc, "fetchRegistry", programOk) EXCEPT
               !.mirror = [ MirrorIdle EXCEPT
                              !.pc = "registry",
                              !.requests = lc.mirror.requests + 1 ] ]
  /\ UNCHANGED << agentVars, dr, rl >>

\* fetchRegistry returned; up to "await fetchAllAgentAccounts()"
FetchRegistryReturns(programOk) ==
  /\ lc.mirror.pc = "registry"
  /\ lc.pc = "returned"
  /\ lc' = [ called(lc, "fetchAllAgentAccounts", programOk) EXCEPT
               !.mirror.pc = "agents",
               !.mirror.registry = lc.result.kind,
               !.mirror.failed = IF lc.result.kind = "null" THEN 1 ELSE 0 ]
  /\ UNCHANGED << agentVars, dr, rl >>

\* fetchAllAgentAccounts returned; the answer is built, which can throw
\* only on a fetched value (toBase58, toNumber of its fields)
FetchAllAgentAccountsReturns(threw) ==
  /\ lc.mirror.pc = "agents"
  /\ lc.pc = "returned"
  /\ threw => (lc.mirror.registry = "value" \/ lc.result.kind = "value")
  /\ lc' = [ lc EXCEPT
               !.mirror = onChainResponse(
                            [ lc.mirror EXCEPT
                                !.failed = IF lc.result.kind = "empty"
                                           THEN @ + 1 ELSE @ ],
                            lc.mirror.registry, lc.result.kind,
                            lc.recentTxSignatures, threw) ]
  /\ UNCHANGED << agentVars, dr, rl >>

InitMirror == InitLedger

NextMirror ==
  \/ \E programOk \in BOOLEAN : OnChainRoute(programOk)
  \/ \E programOk \in BOOLEAN : FetchRegistryReturns(programOk)
  \/ \E threw \in BOOLEAN : FetchAllAgentAccountsReturns(threw)
  \/ \E ok \in BOOLEAN : ReadSettles(ok)

SpecMirror == InitMirror /\ [][NextMirror]_vars

\* both fetches of the request answered failed: the ledger was unreachable
LedgerUnreachable == lc.mirror.failed = 2

\* C28: when the ledger is unreachable, GET /on-chain still answers the
\* request successfully, with registry = null and agents = [] together with
\* an error field describing the failure.
C28_UnreachableLedgerAnswer ==
  (lc.mirror.pc = "done" /\ LedgerUnreachable) =>
    /\ lc.mirror.status = 200
    /\ lc.mirror.registry = "null"
    /\ lc.mirror.agents = "empty"
    /\ lc.mirror.error

(***************************************************************************)
(* One caller sends service requests to the root, each after the answer to *)
(* the one before; no sweep, no other request.                             *)
(***************************************************************************)
\* service calls to the root, one after the other
MaxSeqRootCalls == 205

InitSeqRoot ==
  /\ InitWith(InitialRegistry)
  /\ UnitsIdle

NextSeqRoot ==
  \/ callsStarted < MaxSeqRootCalls /\ ReceiveServiceRequest(1, RootWallet, Base58Address)
  \/ ReportReturns(1, TRUE)
  \/ \E ok \in BOOLEAN : RecordEarningReturns(1, ok)
  \/ \E ok \in BOOLEAN, b \in Balances : BalanceReturns(1, ok, b)
  \/ \E ok \in BOOLEAN : FundReturns(1, ok)
  \/ \E ok \in BOOLEAN : SpawnChildOnChainReturns(1, ok, TRUE)

SpecSeqRoot == InitSeqRoot /\ [][NextSeqRoot]_vars

\* the calls on whose completion the root spawns
RootSpawnCalls == { 50, 100, 150 }

\* C29: with only sequential, successful service calls to the root, the
\* root spawns its first, second and third child exactly on completing
\* calls 50, 100 and 150, and never spawns again afterwards however many
\* more calls it serves.
C29_RootSpawnTimeline ==
  LET n == completed[RootWallet]
  IN  tasks[1].pc = "idle" =>
        /\ Len(runningAgents[RootWallet].children) =
             Cardinality({ k \in RootSpawnCalls : k <= n })
        /\ Len(order) = 1 + Cardinality({ k \in RootSpawnCalls : k <= n })
        /\ n >= 1 => /\ response.status = 200
                     /\ response.spawned <=> n \in RootSpawnCalls

\* the root has served 200 calls, the last one without a spawn, and has the
\* three children of calls 50, 100 and 150
C29_Witness ==
  /\ tasks[1].pc = "idle" /\ completed[RootWallet] = 200
  /\ Len(runningAgents[RootWallet].children) = 3
  /\ runningAgents[RootWallet].totalEarned >= SPAWN_THRESHOLD_LAMPORTS
  /\ ~ response.spawned

\* the agents of the registry at depth k or less
UpToDepth(k) == { w \in DOMAIN runningAgents : runningAgents[w].depth <= k }

\* the size of the full tree of fan-out 3 down to depth k: the sum of 3^d
\* for d = 0..k; 121 for k = 4
FullTree(k) == (MAX_CHILDREN ^ (k + 1) - 1) \div (MAX_CHILDREN - 1)

InitSweep ==
  /\ InitWith(InitialRegistry)
  /\ dr = DrIdle
  /\ lc = LcIdle
  /\ \E n \in { 0, RATE_LIMIT_MAX_REQUESTS - 1 }, d \in { 0, 1 } :
       rl = [ Burst(RlIdle, 1, n) EXCEPT !.now = d ]

SpecSweep == InitSweep /\ [][NextRate]_vars

\* the timestamps of a window, as a set
Stamps(window) == { window[i] : i \in 1..Len(window) }

\* this step is the pruning timer and changes rateLimitMap
Sweeps == rl'.map # rl.map /\ rl'.log = rl.log

\* the instants of the present request and of a later one
Arrivals == { rl.now } \cup { rl.now + d : d \in Advances }

\* C31: the periodic rate-limiter sweep removes exactly the caller entries
\* that have no timestamp inside the current window and drops only expired
\* timestamps from the other entries; compared with a run in which the sweep
\* never fires it never changes whether any present or future request is
\* admitted.
C31_SweepChangesNoDecision ==
  /\ [][ Sweeps =>
           \A ip \in Callers :
             /\ rl'.map[ip] = << >> <=>
                  \A ts \in Stamps(rl.map[ip]) : ~ InWindow(rl.now, ts)
             /\ Stamps(rl'.map[ip]) =
                  { ts \in Stamps(rl.map[ip]) : InWindow(rl.now, ts) }
             /\ Len(rl'.map[ip]) =
                  Len(rl.map[ip]) -
                    Cardinality({ i \in 1..Len(rl.map[ip]) :
                                    ~ InWindow(rl.now, rl.map[ip][i]) }) ]_vars
  /\ [](\A ip \in Callers, t \in Arrivals :
          rateLimit(rl.map, ip, t).ok = rateLimit(rl.unswept, ip, t).ok)

\* the timer has dropped the 59 expired timestamps of caller 1 and kept
\* the one inside the window, and a request of caller 1 was then admitted
C31_Witness ==
  /\ rl.now = RATE_LIMIT_WINDOW_MS
  /\ Len(rl.unswept[1]) = 2 /\ Len(rl.map[1]) = 2
  /\ rl.map[1] = << 1, RATE_LIMIT_WINDOW_MS >>
  /\ Len(rl.log[1]) = RATE_LIMIT_MAX_REQUESTS + 1
  /\ rl.log[1][Len(rl.log[1])].ok

\* the timer has deleted the entry of caller 1, all of whose timestamps had
\* expired, while the run without the timer still holds them
C31_WitnessDeleted ==
  /\ rl.map[1] = << >>
  /\ Len(rl.unswept[1]) = RATE_LIMIT_MAX_REQUESTS - 1
  /\ \A ts \in Stamps(rl.unswept[1]) : ~ InWindow(rl.now, ts)

(***************************************************************************)
(* The auto-spawn loop over time: a few requests, one handler at a time,   *)
(* and the interval timer, which fires again and again.  Every await       *)
(* settles, and the construction of a child agent does not fail for ever.  *)
(***************************************************************************)
InitWatch ==
  /\ \E plan \in { << <<RootWallet, 49>> >>,
                   << <<RootWallet, 50>>, <<SeqChildTarget, 49>> >> } :
       InitWith(RunPlan(InitialRegistry, plan))
  /\ UnitsIdle

\* an await of the handler in flight settles
Settles ==
  \/ \E ok \in BOOLEAN : ReportReturns(1, ok)
  \/ \E ok \in BOOLEAN : RecordEarningReturns(1, ok)
  \/ \E ok \in BOOLEAN : DistributeReturns(1, ok)
  \/ \E ok \in BOOLEAN, b \in Balances : BalanceReturns(1, ok, b)
  \/ \E ok \in BOOLEAN : FundReturns(1, ok)
  \/ \E ok, c \in BOOLEAN : SpawnChildOnChainReturns(1, ok, c)

\* spawnChild gets to its return
ChildStarted == \E ok \in BOOLEAN : SpawnChildOnChainReturns(1, ok, TRUE)

NextWatch ==
  \/ \E w \in DOMAIN runningAgents :
       callsStarted < MaxCalls /\ ReceiveServiceRequest(1, w, Base58Address)
  \/ Settles
  \/ SweepTick(1)

SpecWatch ==
  /\ InitWatch
  /\ [][NextWatch]_vars
  /\ WF_vars(SweepTick(1))
  /\ WF_vars(Settles)
  /\ SF_vars(ChildStarted)

\* agent w would pass the three checks of checkAndSpawn
SpawnEligible(w) ==
  w \in DOMAIN runningAgents /\ PassesSpawnChecks(runningAgents[w])

\* C32: an agent that is spawn-eligible (totalEarned >= threshold,
\* depth < 4, fewer than 3 children) is eventually given a child even if no
\* further request ever arrives, because the periodic sweep calls
\* checkAndSpawn on every registered agent; under fair scheduling of the
\* sweep no agent stays spawn-eligible forever.
C32_EligibleEventuallySpawns ==
  /\ \A w \in Wallets : []<>(~ SpawnEligible(w))
  /\ [][ \A w \in DOMAIN runningAgents :
           (SpawnEligible(w) /\ ~ SpawnEligible(w)') =>
             Len(runningAgents'[w].children) >
               Len(runningAgents[w].children) ]_vars

\* the first child of the root is eligible after a failed spawn, no handler
\* is in flight and no request can arrive any more
C32_Witness ==
  /\ SpawnEligible(SeqChildTarget)
  /\ runningAgents[SeqChildTarget].children = << >>
  /\ tasks[1].pc = "idle"
  /\ callsStarted = MaxCalls

\* the part of an agent's state that service calls, distributions and
\* spawns write
OwnState(st) == << st.totalEarned, st.serviceCallCount, st.children >>

\* the registered agents whose state this step changes
Touched ==
  { w \in DOMAIN runningAgents :
      OwnState(runningAgents'[w]) # OwnState(runningAgents[w]) }

\* a handler on agent w is at an await after which it writes w's state
WritesNext(w) ==
  \E t \in Tasks : tasks[t].agent = w /\ tasks[t].pc \in { "report", "spawnOnChain" }

C34_NoEarningLost ==
  [][ \A w \in Registered, t \in Tasks :
        CompletesSpawn(t, w) =>
          runningAgents[w].totalEarned - runningAgents'[w].totalEarned
            = tasks[t].earned ]_vars

\* C35: for every parent-child pair in the registry, in every reachable
\* state and under any interleaving of requests and sweeps, the child's
\* specialization differs from its parent's specialization.
C35_ChildDiffersFromParent ==
  \A w \in DOMAIN runningAgents :
    LET st == runningAgents[w]
    IN  /\ \A i \in 1..Len(st.children) :
             st.children[i].specialization # st.specialization
        /\ st.parentWallet # NoWallet =>
             st.specialization # runningAgents[st.parentWallet].specialization

\* two spawns of the root that raced gave it two children of one
\* specialization, which is not the root's
C35_Witness ==
  LET kids == runningAgents[RootWallet].children
  IN  /\ Len(kids) = 2
      /\ kids[1].specialization = kids[2].specialization
      /\ kids[1].specialization # runningAgents[RootWallet].specialization
      /\ \A i \in 1..2 : kids[i].wallet \in DOMAIN runningAgents

\* totalSpawns of GET /stats: the sum of childrenCount over the agents at
\* the first n positions of runningAgents
RECURSIVE totalChildren(_)
totalChildren(n) ==
  IF n = 0 THEN 0
  ELSE Len(runningAgents[order[n]].children) + totalChildren(n - 1)

\* the positions of agent w's ChildRef in the children list of agent p
RefsTo(p, w) ==
  { i \in 1..Len(runningAgents[p].children) :
      runningAgents[p].children[i].wallet = w }

\* C36: whenever no spawn is between its registry insertion and its
\* children append, the registry is a tree consistent with the children
\* lists: exactly one agent has no parent (the root), and every other
\* agent's parentWallet names an agent in the registry whose children list
\* contains exactly one ChildRef for it, so the sum of all children counts
\* equals the registry size minus 1.
C36_RegistryIsTree ==
  /\ { w \in DOMAIN runningAgents : runningAgents[w].parentWallet = NoWallet }
       = { RootWallet }
  /\ \A w \in DOMAIN runningAgents \ { RootWallet } :
       /\ runningAgents[w].parentWallet \in DOMAIN runningAgents
       /\ Cardinality(RefsTo(runningAgents[w].parentWallet, w)) = 1
  /\ totalChildren(Len(order)) = Cardinality(DOMAIN runningAgents) - 1

\* the root has four children after two spawns that raced, and GET /stats
\* would count 4 spawns among 5 agents
C36_Witness ==
  /\ Len(runningAgents[RootWallet].children) = MAX_CHILDREN + 1
  /\ Cardinality(DOMAIN runningAgents) = MAX_CHILDREN + 2
  /\ totalChildren(Len(order)) = MAX_CHILDREN + 1

\* C37: in every reachable state every agent's totalEarned is a
\* non-negative multiple of the service fee and never exceeds
\* fee * serviceCallCount; for an agent that has never spawned the two are
\* equal.
C37_EarningsAreFees ==
  \A w \in DOMAIN runningAgents :
    LET st == runningAgents[w]
    IN  /\ st.totalEarned >= 0
        /\ st.totalEarned % SERVICE_PRICE_LAMPORTS = 0
        /\ st.totalEarned <= SERVICE_PRICE_LAMPORTS * st.serviceCallCount
        /\ st.children = << >> =>
             st.totalEarned = SERVICE_PRICE_LAMPORTS * st.serviceCallCount

\* the first child, which has not spawned, holds the fees of its 50 calls
\* after a spawn of its own failed; the root has spawned and holds less
\* than the fees of its calls
C37_Witness ==
  /\ SeqChildTarget \in DOMAIN runningAgents
  /\ runningAgents[SeqChildTarget].children = << >>
  /\ runningAgents[SeqChildTarget].serviceCallCount = 50
  /\ runningAgents[SeqChildTarget].totalEarned = 50 * SERVICE_PRICE_LAMPORTS
  /\ runningAgents[RootWallet].totalEarned
       < SERVICE_PRICE_LAMPORTS * runningAgents[RootWallet].serviceCallCount

\* the timestamps of the caller's admitted requests inside the window
\* ending now
AdmittedStamps(ip) ==
  { rl.log[ip][i].at : i \in AdmittedInWindow(rl.log[ip], rl.now) }

\* the oldest of them
OldestAdmitted(ip) ==
  CHOOSE ts \in AdmittedStamps(ip) : \A other \in AdmittedStamps(ip) : ts <= other

\* C38: a request rejected by the rate limiter leaves the limiter state
\* unchanged (its timestamp is not recorded), so rejected requests never
\* extend the time a caller stays blocked: the caller is admitted again as
\* soon as its oldest admitted timestamp is 60 s old, however many requests
\* were rejected in between.
C38_RejectedLeavesNoTrace ==
  /\ [][ \A ip \in Callers : Rejected(ip) => rl'.map = rl.map ]_vars
  /\ [](\A ip \in Callers :
          AdmittedStamps(ip) # {} =>
            rateLimit(rl.map, ip,
                      OldestAdmitted(ip) + RATE_LIMIT_WINDOW_MS).ok)

\* caller 1 was admitted 60 times at one instant, rejected twice, and
\* admitted again 60 s after that instant
C38_Witness ==
  LET log == rl.log[1]
      max == RATE_LIMIT_MAX_REQUESTS
  IN  /\ Len(log) = max + 3
      /\ \A i \in 1..max : log[i].ok /\ log[i].at = log[1].at
      /\ ~ log[max + 1].ok /\ ~ log[max + 2].ok
      /\ log[max + 3].ok
      /\ log[max + 3].at = log[1].at + RATE_LIMIT_WINDOW_MS

(***************************************************************************)
(* handleServiceCall together with the ledger client: one request, whose   *)
(* ledger calls run through withRetry attempt by attempt.                  *)
(***************************************************************************)
\* the ledger-client function awaited at a position of the handler
awaitedFn(pc) ==
  CASE pc = "recordEarning" -> "recordEarningOnChain"
    [] pc = "distribute"    -> "distributeToParent"
    [] pc = "spawnOnChain"  -> "spawnChildOnChain"
    [] OTHER                -> "none"

\* the handler calls the function it awaits
ClientCalled(programOk) ==
  /\ awaitedFn(tasks[1].pc) # "none"
  /\ lc.pc = "idle"
  /\ lc' = called(lc, awaitedFn(tasks[1].pc), programOk)
  /\ UNCHANGED << agentVars, dr, rl >>

\* the function has returned a signature or null: the handler goes on
ClientReturned(constructed) ==
  LET ok == lc.result.kind = "tx"
  IN  /\ lc.pc = "returned"
      /\ lc' = [ lc EXCEPT !.pc = "idle" ]
      /\ UNCHANGED << dr, rl >>
      /\ \/ RecordEarningSettled(1, ok)
         \/ DistributeSettled(1, ok)
         \/ SpawnChildOnChainSettled(1, ok, constructed)

InitCall ==
  /\ \E plan \in { << <<RootWallet, 49>> >>,
                   << <<RootWallet, 50>>, <<SeqChildTarget, 49>> >> } :
       InitWith(RunPlan(InitialRegistry, plan))
  /\ UnitsIdle

\* the steps of a handler in flight
CallProgress ==
  \/ \E ok \in BOOLEAN : ReportReturns(1, ok)
  \/ \E ok \in BOOLEAN, b \in Balances : BalanceReturns(1, ok, b)
  \/ \E ok \in BOOLEAN : FundReturns(1, ok)
  \/ \E programOk \in BOOLEAN : ClientCalled(programOk)
  \/ \E ok \in BOOLEAN : AttemptSettles(ok, ok)
  \/ BackoffEnds
  \/ \E constructed \in BOOLEAN : ClientReturned(constructed)

NextCall ==
  \/ \E w \in DOMAIN runningAgents :
       callsStarted = 0 /\ ReceiveServiceRequest(1, w, Base58Address)
  \/ CallProgress

SpecCall == InitCall /\ [][NextCall]_vars /\ WF_vars(CallProgress)

\* C39: every handleServiceCall invocation terminates: provided each
\* report-service call and each individual ledger attempt completes
\* (successfully or not), the invocation returns or fails after at most 3
\* attempts each of record-earning, distribute-to-parent and spawn-child,
\* even when the ledger fails forever.
C39_InvocationTerminates ==
  /\ [](/\ Len(lc.outcomes) <= 3
        /\ lc.calls <= 3 * callsStarted
        /\ lc.pc # "idle" => lc.fn = awaitedFn(tasks[1].pc))
  /\ [][ /\ lc'.calls # lc.calls =>
              /\ lc'.calls = lc.calls + 1
              /\ lc'.fn # lc.fn
              /\ lc'.fn = awaitedFn(tasks[1].pc)
         /\ awaitedFn(tasks[1].pc) \notin { "none", awaitedFn(tasks'[1].pc) } =>
              lc.pc = "returned" ]_vars
  /\ (tasks[1].pc # "idle") ~> (tasks[1].pc = "idle")

\* a handler on the first child was answered 200 after recordEarningOnChain,
\* distributeToParent and spawnChildOnChain had each failed three times
C39_Witness ==
  /\ response.status = 200 /\ response.agent = SeqChildTarget
  /\ response.spawned
  /\ lc.calls = 3 /\ lc.fn = "spawnChildOnChain"
  /\ lc.outcomes = << FALSE, FALSE, FALSE >>
  /\ lc.recentTxSignatures = << >>

(***************************************************************************)
(* The "no specialization available" exit of checkAndSpawn                 *)
(***************************************************************************)
\* checkAndSpawn has passed the threshold, depth and fan-out checks and
\* reaches "if (available.length === 0) return" with an empty list
NoSpecializationExit(st) == PassesSpawnChecks(st) /\ available(st) = {}

\* C40: an agent that passes the threshold, depth and fan-out checks of
\* checkAndSpawn has at most its own specialization and two children's in
\* use, so at least two of the five specializations are unused and the "no
\* specialization available" exit is taken by no agent in any reachable state
C40_SpecializationAlwaysAvailable ==
  \A w \in DOMAIN runningAgents :
    LET st == runningAgents[w]
    IN  /\ ~ NoSpecializationExit(st)
        /\ PassesSpawnChecks(st) =>
             /\ Cardinality(usedSpecs(st)) <= 1 + (MAX_CHILDREN - 1)
             /\ Cardinality(available(st)) >=
                  Len(SPECIALIZATIONS) - MAX_CHILDREN

\* an agent with two children, of two specializations other than its own,
\* passes the three checks while a handler is at work on it: three
\* specializations are in use and two are left
C40_Witness ==
  \E w \in DOMAIN runningAgents, t \in Tasks :
    /\ tasks[t].agent = w /\ tasks[t].pc # "idle"
    /\ PassesSpawnChecks(runningAgents[w])
    /\ Len(runningAgents[w].children) = MAX_CHILDREN - 1
    /\ Cardinality(usedSpecs(runningAgents[w])) = MAX_CHILDREN
    /\ Cardinality(available(runningAgents[w])) = 2

====
